---- MODULE Spec2Model ----
(***************************************************************************)
(* Tinker Notebook: the identifier generator of a parse pass, the block    *)
(* state store with its persistence, the result-reference resolver and the *)
(* run of a code block (executeCodeBlock), as one state machine.           *)
(*                                                                         *)
(* Text is a sequence of tokens.  "$" stands for the literal marker        *)
(* `$tinker_outputs.`, the tokens of WordToks are runs of characters of    *)
(* the class [\w-], the tokens of SpaceToks are white space, and every     *)
(* other token is one character outside both.  A block id is a non-empty   *)
(* sequence of word tokens.                                                *)
(***************************************************************************)
EXTENDS Integers, Sequences, FiniteSets, TLC

\* ------------------------------------------------------------------ bounds
MaxRuns == 2        \* invocations of executeCodeBlock in one behaviour
MaxFileRuns == 1    \* the same, in the behaviours with a state file
MaxTime == 1        \* the clock (milliseconds) advances at most this far
MaxClears == 1      \* invocations of the clearBlockStates command
MaxBlocks == 3      \* fences matched in one parse pass
MaxLine == 3        \* last line a fence's content can start on
MaxPasses == 2      \* parse passes (findCodeBlocks calls) in one behaviour
MaxSegments == 3    \* pieces (prose or fence) of a parsed document
MaxRegistered == 2  \* registerFormatter calls after the constructor
MaxDepth == 3       \* largest maxDepth passed in the formatting options

\* ------------------------------------------------------------------- texts
Marker == "$"
IdA == <<"a">>
IdB == <<"b">>
IdProto == <<"__proto__">>
DigitToks == {"1", "5"}
WordToks == {"a", "b", "__proto__", "-", "true", "TRUE", "false", "null"} \cup DigitToks
SpaceToks == {" ", "\n"}
\* The ids of the blocks that are run: in the session without a state file,
\* and in the session with one.
RunIds == {IdA, IdB}
FileIds == {IdA}

\* The longest run of word tokens of text starting at position i
\* (the greedy group ([\w-]+) of the reference regex).
RECURSIVE WordRunEnd(_, _)
WordRunEnd(text, i) ==
    IF i + 1 <= Len(text) /\ text[i + 1] \in WordToks
    THEN WordRunEnd(text, i + 1)
    ELSE i

\* Append x to seq unless it is there already (references.includes).
PushUnique(seq, x) ==
    IF \E k \in 1..Len(seq) : seq[k] = x THEN seq ELSE Append(seq, x)

RECURSIVE ScanReferences(_, _, _)
ScanReferences(text, i, acc) ==
    IF i > Len(text) THEN acc
    ELSE IF text[i] = Marker /\ i + 1 <= Len(text) /\ text[i + 1] \in WordToks
         THEN LET j == WordRunEnd(text, i + 1)
              IN  ScanReferences(text, j + 1, PushUnique(acc, SubSeq(text, i + 1, j)))
         ELSE ScanReferences(text, i + 1, acc)

\* ResultReferenceProcessor.detectReferences: the referenced ids,
\* de-duplicated, in order of first appearance.
detectReferences(content) == ScanReferences(content, 1, <<>>)

Range(seq) == {seq[k] : k \in 1..Len(seq)}

\* ----------------------------------------------------------------- results
\* ExecutionResult { output, error?, exitCode, executionTime }.
NoError == <<>>
NoResult == [absent |-> TRUE]

Result(out, err, code) ==
    [output |-> out, error |-> err, exitCode |-> code, executionTime |-> 5]

\* What the external executors hand back: stdout, stderr (or the message of
\* a caught exception with output ''), and the exit code.
Results ==
    { Result(<<"1">>, NoError, 0),
      Result(<<" ", Marker, "a">>, NoError, 0),
      Result(<<>>, <<"boom">>, 1) }

\* The results of the runs in the session with a state file.
FileResults == {Result(<<"1">>, NoError, 0)}

\* The contents a block can have when it is run.
Contents ==
    { <<"1">>,
      <<Marker, "a">>,
      <<Marker, "b", " ">> }

FileContents == { <<"1">> }

\* The results and contents of the calls of processContent checked on their
\* own: numbers, booleans in either case, blank text, text with a quote, a
\* failed run; and contents with no marker, a marker without an id, one
\* reference, two references, and a reference to the id `ab`.
RefResults ==
    { Result(<<"5">>, NoError, 0),
      Result(<<" ", "-", "1", ".", "5", "\n">>, NoError, 0),
      Result(<<"1", ".">>, NoError, 0),
      Result(<<"TRUE">>, NoError, 0),
      Result(<<"false", " ">>, NoError, 0),
      Result(<<" ", "\n">>, NoError, 0),
      Result(<<"a", "'", " ", "b">>, NoError, 0),
      Result(<<"5">>, <<"boom">>, 1) }

RefContents ==
    { <<"1", " ">>,
      <<Marker, " ">>,
      <<"(", Marker, "a", ")">>,
      <<Marker, "b", " ", Marker, "a">>,
      <<Marker, "a", "b">> }

\* The ids, results and contents of the hasCircularReferences calls checked
\* on their own: outputs that refer to one id, to two, to none.
CircIds == {IdA, IdB, IdProto}

CircResults ==
    { Result(<<"1">>, NoError, 0),
      Result(<<Marker, "a">>, NoError, 0),
      Result(<<Marker, "b", " ">>, NoError, 0),
      Result(<<Marker, "__proto__">>, NoError, 0),
      Result(<<Marker, "b", " ", Marker, "__proto__">>, NoError, 0),
      Result(<<>>, <<"boom">>, 1) }

CircContents ==
    { <<"1">>,
      <<Marker, "a">>,
      <<Marker, "b", " ", Marker, "a">>,
      <<Marker, "__proto__">> }

\* BlockState
Executing == "executing"
Success == "success"
Error == "error"
NotExecuted == "not-executed"

\* ------------------------------------------------------------------- state
VARIABLES
    usedIds,      \* BlockIdGenerator.usedIds
    blocks,       \* the blocks findCodeBlocks has pushed in the current pass
    nextLine,     \* first line the next fence's content can start on
    passes,       \* parse passes started so far
    states,       \* BlockStateManager.states : id -> BlockStateEntry
    results,      \* BlockStateManager.results : id -> ExecutionResult
    stateFile,    \* TRUE iff a workspace folder gives the manager a state file
    file,         \* what is on disk at stateFile
    pending,      \* documents handed to fs.promises.writeFile, not yet written
    ws,           \* context.workspaceState: the two keys the manager updates
    loadPc,       \* position of the loadState() call that activate() started
    loadData,     \* what that call's readFile produced
    now,          \* the clock new Date() reads
    runs,         \* executeCodeBlock invocations: run -> record
    nextRun,      \* number of the next invocation
    completions,  \* runs in the order of their completing setBlockState
    clears,       \* clearBlockStates commands so far
    blockStatusMap, \* CodeBlockDecorator.blockStatusMap : id -> BlockState
    refContent,   \* the argument of the last processContent call
    refProcessed, \* what that call returned
    docSegments,  \* the markdown document of the last parse, piece by piece
    docBlocks,    \* the fences the regex of findCodeBlocks matched in it
    formatters,   \* OutputFormatterManager.formatters, in list order
    fmtOutput,    \* result.output of the last formatOutput call
    fmtCalls,     \* list positions whose canFormat that call invoked, in order
    fmtFormatted, \* what that call returned
    circSelf,     \* the blockId of the last hasCircularReferences call
    circText,     \* the content of that call
    circResult,   \* what that call returned
    rawOutput,    \* BaseFormatter.rawOutput of the JSON and the array formatter
    lastCall      \* the last canFormat, format or detectType call and its return

parseVars == <<usedIds, blocks, nextLine, passes>>
storeVars == <<states, results, pending, ws>>
diskVars == <<stateFile, file>>
loadVars == <<loadPc, loadData>>
runVars == <<runs, nextRun, completions>>
decoratorVars == <<blockStatusMap>>
refVars == <<refContent, refProcessed>>
\* The variables of the calls that are checked on their own, outside a session.
docVars == <<docSegments, docBlocks>>
fmtVars == <<formatters, fmtOutput, fmtCalls, fmtFormatted>>
circVars == <<circSelf, circText, circResult>>
instVars == <<rawOutput, lastCall>>
pureVars == <<refVars, docVars, fmtVars, circVars, instVars>>
\* The variables of a session.
sessionVars == <<states, results, stateFile, file, pending, ws, loadPc, loadData,
                 now, runs, nextRun, completions, clears, blockStatusMap>>
vars == <<usedIds, blocks, nextLine, passes, states, results, stateFile, file,
          pending, ws, loadPc, loadData, now, runs, nextRun, completions, clears,
          blockStatusMap, refContent, refProcessed, docSegments, docBlocks,
          formatters, fmtOutput, fmtCalls, fmtFormatted,
          circSelf, circText, circResult, rawOutput, lastCall>>

\* ------------------------------------------------------- maps and documents
EmptyMap == [k \in {} |-> NoResult]

\* Map.set
Put(m, k, v) == [x \in DOMAIN m \cup {k} |-> IF x = k THEN v ELSE m[x]]

\* Map.get, with NoResult for undefined
Get(m, k) == IF k \in DOMAIN m THEN m[k] ELSE NoResult

\* A Date is [ms |-> t]; its ISO string is [iso |-> <<seconds, milliseconds>>].
DateOf(t) == [ms |-> t]

\* Date.prototype.toISOString: whole seconds and a three-digit millisecond field.
ToISOString(d) == [iso |-> <<d.ms \div 1000, d.ms % 1000>>]

\* new Date(isoString)
DateParse(str) == [ms |-> str.iso[1] * 1000 + str.iso[2]]

\* The replacer of saveState: a Date becomes its ISO string.
ReplaceDate(value) ==
    IF "ms" \in DOMAIN value THEN ToISOString(value) ELSE value

\* The reviver of loadState: a string under the key lastExecutionTime
\* becomes a Date.
ReviveDate(value) ==
    IF "iso" \in DOMAIN value THEN DateParse(value) ELSE value

\* The own enumerable properties after `data[key] = value` for every key of
\* a Map, on a plain object literal: assigning the key __proto__ sets the
\* object's prototype and creates no own property.
OwnKeys(m) == {k \in DOMAIN m : k # IdProto}

StringifyEntry(e) == [e EXCEPT !.lastExecutionTime = ReplaceDate(@)]

ParseEntry(e) == [e EXCEPT !.lastExecutionTime = ReviveDate(@)]

\* saveState, lines 106-124: the JSON text of { states, results }.
SaveData(st, res) ==
    [states  |-> [k \in OwnKeys(st) |-> StringifyEntry(st[k])],
     results |-> [k \in OwnKeys(res) |-> res[k]]]

\* loadState, lines 145-161: JSON.parse with the reviver, then
\* new Map(Object.entries(...)) of each of the two records.
ParseData(doc) ==
    [states  |-> [k \in DOMAIN doc.states |-> ParseEntry(doc.states[k])],
     results |-> doc.results]

EmptyDoc == SaveData(EmptyMap, EmptyMap)

Absent == [kind |-> "absent", doc |-> EmptyDoc]
Corrupt == [kind |-> "corrupt", doc |-> EmptyDoc]
DocFile(doc) == [kind |-> "doc", doc |-> doc]

WsUnset == [set |-> FALSE, states |-> EmptyMap, results |-> EmptyMap]
WsOf(st, res) == [set |-> TRUE, states |-> st, results |-> res]

\* A store value: the manager's two maps, the writes in flight and the
\* context storage, threaded through the calls of one handler.
Store(st, res, pend, w) == [states |-> st, results |-> res, pending |-> pend, ws |-> w]

\* ------------------------------------------------------ BlockStateManager
\* saveState: the document is built and serialized before the first await;
\* with a state file the write is then in flight and the context storage is
\* updated after it (see WriteFile); without one the context storage is
\* updated at once.
saveState(S) ==
    IF stateFile
    THEN [S EXCEPT !.pending = Append(@, SaveData(S.states, S.results))]
    ELSE [S EXCEPT !.ws = WsOf(S.states, S.results)]

\* storeResult
storeResult(res, blockId, result) == Put(res, blockId, result)

\* A store in which the first completion of an id is kept: a call with
\* Success or Error does not replace an entry that is already in one of them.
setBlockState_FirstCompletionKept(S, blockId, state, result) ==
    LET entry == [id |-> blockId, state |-> state,
                  lastExecutionTime |-> DateOf(now), lastResult |-> result]
        kept == /\ blockId \in DOMAIN S.states
                /\ S.states[blockId].state \in {Success, Error}
                /\ state \in {Success, Error}
    IN  IF kept
        THEN saveState(S)
        ELSE saveState([S EXCEPT !.states = Put(@, blockId, entry),
                                 !.results = IF result # NoResult
                                             THEN storeResult(@, blockId, result)
                                             ELSE @])

\* setBlockState(blockId, state, result?): a fresh entry replaces the id's
\* entry; the result, when given, is also put in the results map.
setBlockState(S, blockId, state, result) ==
    LET entry == [id |-> blockId, state |-> state,
                  lastExecutionTime |-> DateOf(now), lastResult |-> result]
        res1 == IF result # NoResult
                THEN storeResult(S.results, blockId, result)
                ELSE S.results
    IN  saveState([S EXCEPT !.states = Put(@, blockId, entry), !.results = res1])

\* getBlockState / getResult
getBlockState(st, blockId) == Get(st, blockId)
getResult(res, blockId) == Get(res, blockId)

\* clearAllStates
clearAllStates(S) ==
    saveState([S EXCEPT !.states = EmptyMap, !.results = EmptyMap])

\* ------------------------------------------------ ResultReferenceProcessor
\* checkCircular: the walk over the referenced ids; the visited set is
\* shared by the whole walk, so the result carries it.
RECURSIVE checkCircular(_, _, _, _)
checkCircular(originalBlockId, referencedBlockIds, visitedBlocks, st) ==
    IF referencedBlockIds = <<>>
    THEN [found |-> FALSE, visited |-> visitedBlocks]
    ELSE
      LET refId == Head(referencedBlockIds)
          rest == Tail(referencedBlockIds)
      IN
      IF refId \in visitedBlocks
      THEN checkCircular(originalBlockId, rest, visitedBlocks, st)
      ELSE
        LET v1 == visitedBlocks \cup {refId}
            state == getBlockState(st, refId)
            nestedRefs ==
                IF state # NoResult /\ state.lastResult # NoResult
                THEN detectReferences(state.lastResult.output)
                ELSE <<>>
            sub == IF nestedRefs # <<>>
                   THEN checkCircular(originalBlockId, nestedRefs, v1, st)
                   ELSE [found |-> FALSE, visited |-> v1]
        IN
        IF refId = originalBlockId
        THEN [found |-> TRUE, visited |-> v1]
        ELSE IF sub.found THEN sub
        ELSE checkCircular(originalBlockId, rest, sub.visited, st)

\* A check that looks at the references of the content only.
hasCircularReferences_DirectOnly(blockId, content, st) ==
    blockId \in Range(detectReferences(content))

\* hasCircularReferences(blockId, content) against the entries st.
hasCircularReferences(blockId, content, st) ==
    LET references == detectReferences(content)
    IN  \/ blockId \in Range(references)
        \/ checkCircular(blockId, references, {}, st).found

\* String.prototype.trim
RECURSIVE TrimStart(_)
TrimStart(text) ==
    IF text # <<>> /\ Head(text) \in SpaceToks THEN TrimStart(Tail(text)) ELSE text

RECURSIVE TrimEnd(_)
TrimEnd(text) ==
    IF text # <<>> /\ text[Len(text)] \in SpaceToks
    THEN TrimEnd(SubSeq(text, 1, Len(text) - 1))
    ELSE text

Trim(text) == TrimEnd(TrimStart(text))

\* The longest run of digit tokens of text from position i on: the position
\* after it (\d+ is greedy and a digit run is never given back).
RECURSIVE DigitRunEnd(_, _)
DigitRunEnd(text, i) ==
    IF i <= Len(text) /\ text[i] \in DigitToks THEN DigitRunEnd(text, i + 1) ELSE i

\* /^-?\d+(\.\d+)?$/.test(text)
IsNumeric(text) ==
    LET i0 == IF text # <<>> /\ Head(text) = "-" THEN 2 ELSE 1
        i1 == DigitRunEnd(text, i0)
        i2 == IF i1 <= Len(text) /\ text[i1] = "." THEN DigitRunEnd(text, i1 + 1) ELSE i1
    IN  /\ i1 > i0
        /\ \/ i1 = Len(text) + 1
           \/ text[i1] = "." /\ i2 > i1 + 1 /\ i2 = Len(text) + 1

\* String.prototype.toLowerCase, token by token.
LowerTok(tok) == IF tok = "TRUE" THEN "true" ELSE tok
ToLowerCase(text) == [k \in 1..Len(text) |-> LowerTok(text[k])]

\* text.replace(/'/g, "\\'"): a backslash before every single quote.
RECURSIVE EscapeQuotes(_)
EscapeQuotes(text) ==
    IF text = <<>> THEN <<>>
    ELSE (IF Head(text) = "'" THEN <<"\\", "'">> ELSE <<Head(text)>>)
         \o EscapeQuotes(Tail(text))

\* A formatOutput that wraps the text in quotes without escaping it.
formatOutput_QuotesKept(result) ==
    LET output == Trim(result.output)
    IN  IF result.error # NoError THEN <<"null">>
        ELSE IF output = <<>> THEN <<"null">>
        ELSE IF IsNumeric(output) THEN output
        ELSE IF ToLowerCase(output) = <<"true">> THEN <<"true">>
        ELSE IF ToLowerCase(output) = <<"false">> THEN <<"false">>
        ELSE <<"'">> \o output \o <<"'">>

\* ResultReferenceProcessor.formatOutput
formatOutput(result) ==
    LET output == Trim(result.output)
    IN  IF result.error # NoError THEN <<"null">>
        ELSE IF output = <<>> THEN <<"null">>
        ELSE IF IsNumeric(output) THEN output
        ELSE IF ToLowerCase(output) = <<"true">> THEN <<"true">>
        ELSE IF ToLowerCase(output) = <<"false">> THEN <<"false">>
        ELSE <<"'">> \o EscapeQuotes(output) \o <<"'">>

\* content.replace(referenceRegex, callback) from position i on: a match is
\* replaced by the formatted result of its id, or left as it is when the id
\* has no result; the replacement is not scanned again.
RECURSIVE ReplaceReferences(_, _, _)
ReplaceReferences(text, i, res) ==
    IF i > Len(text) THEN <<>>
    ELSE IF text[i] = Marker /\ i + 1 <= Len(text) /\ text[i + 1] \in WordToks
         THEN LET j == WordRunEnd(text, i + 1)
                  match == SubSeq(text, i, j)
                  result == getResult(res, SubSeq(text, i + 1, j))
              IN  (IF result = NoResult THEN match ELSE formatOutput(result))
                  \o ReplaceReferences(text, j + 1, res)
         ELSE <<text[i]>> \o ReplaceReferences(text, i + 1, res)

\* A processContent for which an id without a result has the empty result.
processContent_MissingIsEmpty(content, res) ==
    ReplaceReferences(content, 1,
        res @@ [k \in {IdA, IdB, IdA \o IdB} |-> Result(<<>>, NoError, 0)])

\* ResultReferenceProcessor.processContent(content) against the results res.
processContent(content, res) == ReplaceReferences(content, 1, res)

\* ------------------------------------------------------- BlockIdGenerator
\* No custom id (undefined).
NoName == <<>>

Languages == {"php", "tinker"}

\* The explicit names a fence can carry ([a-zA-Z0-9_-]+): they include
\* names of the shape of a generated id.
Names == { <<"php", "-", "d0">>, <<"php", "-", "d0", "-", "1">> }

\* The inner texts of the fences of a document.
FenceContents == { <<"1">>, <<"x">> }

DecimalDigits == <<"0", "1", "2", "3", "4", "5", "6", "7", "8", "9">>

\* Number.prototype.toString for the numbers 0..9.
NumberToString(n) == <<DecimalDigits[n + 1]>>

TokWeight(tok) == IF tok \in {"1", "3", "5", "7", "9"} THEN 1 ELSE 0

RECURSIVE SumWeights(_)
SumWeights(str) ==
    IF str = <<>> THEN 0 ELSE TokWeight(Head(str)) + SumWeights(Tail(str))

\* createHash('md5').update(str).digest('hex').substring(0, 8): a function of
\* the whole string with few values, so that different strings share a
\* digest as truncated md5 values can.
Md5Hex8(str) == IF SumWeights(str) % 2 = 0 THEN "d0" ELSE "d1"

\* A candidate whose digest is of the content alone.
AutoId_ContentOnly(codeBlock) ==
    <<codeBlock.language, "-", Md5Hex8(codeBlock.content)>>

\* The candidate `${language}-${contentDigest}`, lines 50-56.
AutoId(codeBlock) ==
    <<codeBlock.language, "-",
      Md5Hex8(codeBlock.content \o NumberToString(codeBlock.startLine))>>

\* The while loop of lines 59-64: autoId, or autoId-counter for the first
\* counter from the given one on that is not used.
RECURSIVE UniqueId(_, _, _)
UniqueId(used, autoId, counter) ==
    LET uniqueId == autoId \o <<"-">> \o NumberToString(counter)
    IN  IF uniqueId \in used THEN UniqueId(used, autoId, counter + 1) ELSE uniqueId

\* A generator that takes every explicit name as it is, used or not.
generateId_NameAlwaysTaken(used, codeBlock, customId) ==
    IF customId # NoName
    THEN [id |-> customId, used |-> used \cup {customId}]
    ELSE LET autoId == AutoId(codeBlock)
             id == IF autoId \in used THEN UniqueId(used, autoId, 1) ELSE autoId
         IN  [id |-> id, used |-> used \cup {id}]

\* generateId(codeBlock, customId): the id, and usedIds afterwards.
generateId(used, codeBlock, customId) ==
    IF customId # NoName /\ customId \notin used
    THEN [id |-> customId, used |-> used \cup {customId}]
    ELSE LET autoId == AutoId(codeBlock)
             id == IF autoId \in used THEN UniqueId(used, autoId, 1) ELSE autoId
         IN  [id |-> id, used |-> used \cup {id}]

\* A clearUsedIds that forgets nothing.
clearUsedIds_Kept(used) == used

\* clearUsedIds
clearUsedIds(used) == {}

\* ------------------------------------------------------- output formatters
\* The texts an execution can print, token by token.  A bracket, a comma, a
\* colon and a hash are tokens of their own; "array(", "object(" and
\* "::__set_state(" are the PHP markers the formatters look for.
Quote == "\""
JsonLiterals == {"true", "false", "null"}
NameToks == WordToks \ {"-"}

FormatOutputs ==
    { <<"a", " ", "b">>,
      <<" ", "\n">>,
      <<"{", Quote, "a", Quote, ":", " ", "1", "}">>,
      <<"[", "1", ",", "5", "]", "\n">>,
      <<"[", "1", ",", "]">>,
      <<"[", "1", "}">>,
      <<"{", "a", "}">>,
      <<"array(", "1", ",", " ", "5", ")">>,
      <<"object(", "a", ")", "#", "1", " ", "(", "5", ")">>,
      <<"object(", "a", ")", "#", "1", " ", "(", "5", ")", " ", "{", "}">>,
      <<"a", "::__set_state(", "array(", ")", ")">> }

\* String.prototype.startsWith and endsWith for a marker that is one token.
StartsWith(text, tok) == text # <<>> /\ Head(text) = tok
EndsWith(text, tok) == text # <<>> /\ text[Len(text)] = tok

\* The end of the longest run of tokens of text from position i on that are
\* in toks: the position after it.
RECURSIVE RunEnd(_, _, _)
RunEnd(text, i, toks) ==
    IF i <= Len(text) /\ text[i] \in toks THEN RunEnd(text, i + 1, toks) ELSE i

\* text[i] = tok, FALSE past the end of text.
At(text, i, tok) == i <= Len(text) /\ text[i] = tok

\* JavaScript values: null, booleans, numbers and strings with their text,
\* arrays with their items, objects with their own properties in order.
JsNull == [type |-> "null"]
JsBoolean(tok) == [type |-> "boolean", text |-> <<tok>>]
JsNumber(text) == [type |-> "number", text |-> text]
JsString(text) == [type |-> "string", text |-> text]
JsArray(items) == [type |-> "array", items |-> items]
JsObject(members) == [type |-> "object", members |-> members]

\* obj[key] = value: a new key is added last, a key that is there keeps its
\* place and gets the value.
SetMember(members, key, value) ==
    IF \E k \in 1..Len(members) : members[k].key = key
    THEN [k \in 1..Len(members) |->
             IF members[k].key = key THEN [key |-> key, value |-> value]
             ELSE members[k]]
    ELSE Append(members, [key |-> key, value |-> value])

\* The end of the closing quote of the JSON string whose opening quote is
\* before position i: the position of that quote, or one past the text.
RECURSIVE StringEnd(_, _)
StringEnd(t, i) ==
    IF i <= Len(t) /\ t[i] # Quote THEN StringEnd(t, i + 1) ELSE i

\* A JSON number at position i, -?\d+(\.\d+)?: the position after it, i when
\* there is none.
JsonNumberEnd(t, i) ==
    LET i0 == IF At(t, i, "-") THEN i + 1 ELSE i
        i1 == DigitRunEnd(t, i0)
        i2 == IF At(t, i1, ".") THEN DigitRunEnd(t, i1 + 1) ELSE i1
    IN  IF i1 = i0 THEN i
        ELSE IF At(t, i1, ".") /\ i2 > i1 + 1 THEN i2
        ELSE i1

JsonSyntaxError == [end |-> 0]

\* JSON.parse as a recursive descent: each operator gives the position after
\* what it parsed and the value, or the SyntaxError.  White space is allowed
\* around every token.
RECURSIVE JsonValue(_, _)
RECURSIVE JsonElements(_, _, _)
RECURSIVE JsonMembers(_, _, _)
JsonValue(t, from) ==
    LET i == RunEnd(t, from, SpaceToks)
    IN  IF i > Len(t) THEN JsonSyntaxError
        ELSE IF JsonNumberEnd(t, i) > i
        THEN [end |-> JsonNumberEnd(t, i),
              value |-> JsNumber(SubSeq(t, i, JsonNumberEnd(t, i) - 1))]
        ELSE IF t[i] = "null" THEN [end |-> i + 1, value |-> JsNull]
        ELSE IF t[i] \in JsonLiterals THEN [end |-> i + 1, value |-> JsBoolean(t[i])]
        ELSE IF t[i] = Quote THEN
            LET q == StringEnd(t, i + 1)
            IN  IF q > Len(t) THEN JsonSyntaxError
                ELSE [end |-> q + 1, value |-> JsString(SubSeq(t, i + 1, q - 1))]
        ELSE IF t[i] = "[" THEN
            LET j == RunEnd(t, i + 1, SpaceToks)
            IN  IF At(t, j, "]") THEN [end |-> j + 1, value |-> JsArray(<<>>)]
                ELSE JsonElements(t, i + 1, <<>>)
        ELSE IF t[i] = "{" THEN
            LET j == RunEnd(t, i + 1, SpaceToks)
            IN  IF At(t, j, "}") THEN [end |-> j + 1, value |-> JsObject(<<>>)]
                ELSE JsonMembers(t, i + 1, <<>>)
        ELSE JsonSyntaxError

JsonElements(t, from, items) ==
    LET v == JsonValue(t, from)
        e == RunEnd(t, v.end, SpaceToks)
    IN  IF v.end = 0 THEN JsonSyntaxError
        ELSE IF At(t, e, ",") THEN JsonElements(t, e + 1, Append(items, v.value))
        ELSE IF At(t, e, "]") THEN [end |-> e + 1, value |-> JsArray(Append(items, v.value))]
        ELSE JsonSyntaxError

JsonMembers(t, from, members) ==
    LET k == JsonValue(t, from)
        c == RunEnd(t, k.end, SpaceToks)
        v == JsonValue(t, c + 1)
        e == RunEnd(t, v.end, SpaceToks)
    IN  IF k.end = 0 \/ k.value.type # "string" \/ ~At(t, c, ":") THEN JsonSyntaxError
        ELSE IF v.end = 0 THEN JsonSyntaxError
        ELSE IF At(t, e, ",")
        THEN JsonMembers(t, e + 1, SetMember(members, k.value.text, v.value))
        ELSE IF At(t, e, "}")
        THEN [end |-> e + 1, value |-> JsObject(SetMember(members, k.value.text, v.value))]
        ELSE JsonSyntaxError

\* JSON.parse(text): the value, or the SyntaxError when the text is not one
\* JSON value with nothing but white space around it.
JsonParse(text) ==
    LET v == JsonValue(text, 1)
    IN  IF v.end # 0 /\ RunEnd(text, v.end, SpaceToks) = Len(text) + 1
        THEN v ELSE JsonSyntaxError

\* TRUE iff JSON.parse(text) returns, FALSE iff it throws.
JsonParses(text) == JsonParse(text).end # 0

\* The end of the longest run of tokens other than ")" from position i on.
RECURSIVE NotCloseRunEnd(_, _)
NotCloseRunEnd(text, i) ==
    IF i <= Len(text) /\ text[i] # ")" THEN NotCloseRunEnd(text, i + 1) ELSE i

\* phpObjectRegex: /^object\(([^)]+)\)#(\d+)\s+\(([^)]*)\)$/s
MatchesPhpObjectRegex(text) ==
    LET c == NotCloseRunEnd(text, 2)
        d == DigitRunEnd(text, c + 2)
        s == RunEnd(text, d, SpaceToks)
        e == NotCloseRunEnd(text, s + 1)
    IN /\ At(text, 1, "object(")
       /\ c > 2
       /\ At(text, c, ")")
       /\ At(text, c + 1, "#")
       /\ d > c + 2
       /\ s > d
       /\ At(text, s, "(")
       /\ At(text, e, ")")
       /\ e = Len(text)

\* /^[A-Za-z0-9_\\]+::__set_state\(/
MatchesSetState(text) ==
    LET n == RunEnd(text, 1, NameToks) IN n > 1 /\ At(text, n, "::__set_state(")

\* phpStaticObjectRegex: /^([A-Za-z0-9_\\]+)::__set_state\(array\((.*)\)\)$/s
MatchesPhpStaticObjectRegex(text) ==
    LET n == RunEnd(text, 1, NameToks) IN
    /\ MatchesSetState(text)
    /\ At(text, n + 1, "array(")
    /\ Len(text) >= n + 3
    /\ text[Len(text) - 1] = ")"
    /\ text[Len(text)] = ")"

\* JsonFormatter.canFormat
JsonCanFormat(output) ==
    LET trimmedOutput == Trim(output) IN
    /\ StartsWith(trimmedOutput, "{") \/ StartsWith(trimmedOutput, "[")
    /\ EndsWith(trimmedOutput, "}") \/ EndsWith(trimmedOutput, "]")
    /\ JsonParses(trimmedOutput)

\* ArrayFormatter.canFormat.  A text that starts with "[" and parses is an
\* array, which this formatter leaves to the JSON formatter.
ArrayCanFormat(output) ==
    LET trimmedOutput == Trim(output) IN
    \/ StartsWith(trimmedOutput, "array(") /\ EndsWith(trimmedOutput, ")")
    \/ /\ StartsWith(trimmedOutput, "[") /\ EndsWith(trimmedOutput, "]")
       /\ ~JsonParses(trimmedOutput)

\* ObjectFormatter.canFormat
ObjectCanFormat(output) ==
    LET trimmedOutput == Trim(output) IN
    \/ /\ StartsWith(trimmedOutput, "object(")
       /\ \/ MatchesPhpObjectRegex(trimmedOutput)
          \/ MatchesPhpStaticObjectRegex(trimmedOutput)
    \/ MatchesSetState(trimmedOutput)

\* StringFormatter.canFormat: the fallback accepts every output.
StringCanFormat(output) == TRUE

\* ' '.repeat(n)
Spaces(n) == [k \in 1..n |-> " "]

\* The concatenation of the texts of a sequence.
RECURSIVE Flatten(_)
Flatten(texts) ==
    IF texts = <<>> THEN <<>> ELSE Head(texts) \o Flatten(Tail(texts))

\* BaseFormatter.formatObject(obj, indent, maxDepth, currDepth): a value
\* below maxDepth is the ellipsis; a nested value is rendered at indent 0
\* and its leading white space is removed.
RECURSIVE formatObject(_, _, _, _)
formatObject(obj, indent, maxDepth, currDepth) ==
    IF currDepth > maxDepth THEN Spaces(indent) \o <<"...">>
    ELSE IF obj.type = "null" THEN Spaces(indent) \o <<"null">>
    ELSE IF obj.type = "string" THEN Spaces(indent) \o <<Quote>> \o obj.text \o <<Quote>>
    ELSE IF obj.type \in {"number", "boolean"} THEN Spaces(indent) \o obj.text
    ELSE IF obj.type = "array" THEN
        IF obj.items = <<>> THEN Spaces(indent) \o <<"[", "]">>
        ELSE Spaces(indent) \o <<"[", "\n">>
             \o Flatten([i \in 1..Len(obj.items) |->
                    Spaces(indent + 2) \o NumberToString(i - 1) \o <<":", " ">>
                    \o TrimStart(formatObject(obj.items[i], 0, maxDepth, currDepth + 1))
                    \o (IF i < Len(obj.items) THEN <<",">> ELSE <<>>) \o <<"\n">>])
             \o Spaces(indent) \o <<"]">>
    ELSE
        IF obj.members = <<>> THEN Spaces(indent) \o <<"{", "}">>
        ELSE Spaces(indent) \o <<"{", "\n">>
             \o Flatten([i \in 1..Len(obj.members) |->
                    Spaces(indent + 2) \o <<Quote>> \o obj.members[i].key \o <<Quote, ":", " ">>
                    \o TrimStart(formatObject(obj.members[i].value, 0, maxDepth, currDepth + 1))
                    \o (IF i < Len(obj.members) THEN <<",">> ELSE <<>>) \o <<"\n">>])
             \o Spaces(indent) \o <<"}">>

\* FormattingOptions.  The calls that are modelled pass collapsible: false,
\* highlightSyntax: false and showLineNumbers: false, as the formatter tests
\* do, and a maxDepth or none.
NoMaxDepth ==
    [collapsible |-> FALSE, highlightSyntax |-> FALSE, showLineNumbers |-> FALSE]
FormattingOptions ==
    {NoMaxDepth}
    \cup [collapsible : {FALSE}, highlightSyntax : {FALSE},
          showLineNumbers : {FALSE}, maxDepth : 0..MaxDepth]

\* options?.maxDepth || 3: an undefined maxDepth and the maxDepth 0 are
\* falsy and give 3.
EffectiveMaxDepth(options) ==
    IF "maxDepth" \notin DOMAIN options THEN 3
    ELSE IF options.maxDepth = 0 THEN 3
    ELSE options.maxDepth

\* JsonFormatter.format(result, options) on an instance whose rawOutput
\* field is stored: the field is parsed when it is not empty, the trimmed
\* output otherwise.
JsonFormat(stored, output, options) ==
    LET parsed == JsonParse(IF stored # <<>> THEN stored ELSE Trim(output))
    IN  IF parsed.end # 0
        THEN formatObject(parsed.value, 0, EffectiveMaxDepth(options), 0)
        ELSE <<"Failed to parse JSON: ", "SyntaxError", "\n", "\n">> \o output

\* text.split(tok): the pieces between the occurrences of tok.
RECURSIVE Split(_, _)
Split(text, tok) ==
    LET at == {k \in 1..Len(text) : text[k] = tok}
        first == CHOOSE k \in at : \A j \in at : k <= j
    IN  IF at = {} THEN <<text>>
        ELSE <<SubSeq(text, 1, first - 1)>> \o Split(SubSeq(text, first + 1, Len(text)), tok)

\* The position of the first occurrence of tok in text, 0 when there is none.
IndexOfTok(text, tok) ==
    LET at == {k \in 1..Len(text) : text[k] = tok}
    IN  IF at = {} THEN 0 ELSE CHOOSE k \in at : \A j \in at : k <= j

\* arrayRegex, /^array\s*\((.*)\)$/s: TRUE iff text matches.
MatchesArrayRegex(text) == StartsWith(text, "array(") /\ Len(text) >= 2 /\ EndsWith(text, ")")

\* ArrayFormatter.parsePhpArray and parsePhpValue.  A piece is a key => value
\* pair when /^(.*?)=>(.*?)$/ matches it (the dot matches no line end).
RECURSIVE parsePhpArray(_)
RECURSIVE parsePhpValue(_)
parsePhpValue(value) ==
    IF StartsWith(value, Quote) /\ EndsWith(value, Quote)
    THEN JsString(SubSeq(value, 2, Len(value) - 1))
    ELSE IF StartsWith(value, "'") /\ EndsWith(value, "'")
    THEN JsString(SubSeq(value, 2, Len(value) - 1))
    ELSE IF IsNumeric(value) THEN JsNumber(value)
    ELSE IF value \in {<<"true">>, <<"false">>} THEN JsBoolean(value[1])
    ELSE IF value \in {<<"null">>, <<"NULL">>} THEN JsNull
    ELSE IF MatchesArrayRegex(value)
    THEN JsArray(parsePhpArray(SubSeq(value, 2, Len(value) - 1)))
    ELSE JsString(value)

parsePhpArray(arrayContent) ==
    LET pairs == Split(arrayContent, ",")
        Parsed(pair) ==
            LET trimmedPair == Trim(pair)
                arrow == IndexOfTok(trimmedPair, "=>")
            IN  IF trimmedPair = <<>> THEN <<>>
                ELSE IF arrow # 0 /\ "\n" \notin Range(trimmedPair)
                THEN <<JsObject(<<[key |-> Trim(SubSeq(trimmedPair, 1, arrow - 1)),
                                  value |-> parsePhpValue(
                                      Trim(SubSeq(trimmedPair, arrow + 1,
                                                  Len(trimmedPair))))]>>)>>
                ELSE <<parsePhpValue(trimmedPair)>>
    IN  Flatten([k \in 1..Len(pairs) |-> Parsed(pairs[k])])

\* ArrayFormatter.format(result, options): jsArray starts as [] and stays so
\* when arrayRegex does not match; Array.isArray(jsArray) holds either way,
\* so the branch that shows the raw text is never taken.
ArrayFormat(stored, output, options) ==
    LET raw == IF stored # <<>> THEN stored ELSE Trim(output)
        jsArray == IF MatchesArrayRegex(raw)
                   THEN JsArray(parsePhpArray(SubSeq(raw, 2, Len(raw) - 1)))
                   ELSE JsArray(<<>>)
    IN  formatObject(jsArray, 0, EffectiveMaxDepth(options), 0)

\* /^\[\s*.*\s*\]$/m: a line of text starts with "[", and a later line
\* ends with "]", with white space, then text without a line end, then white
\* space between them.
MatchesBracketLine(text) ==
    \E p \in 1..Len(text), q \in 1..Len(text) :
        /\ p < q
        /\ text[p] = "[" /\ (p = 1 \/ text[p - 1] = "\n")
        /\ text[q] = "]" /\ (q = Len(text) \/ text[q + 1] = "\n")
        /\ \E a \in p..(q - 1), b \in p..(q - 1) :
               /\ a <= b
               /\ \A k \in (p + 1)..a : text[k] \in SpaceToks
               /\ \A k \in (a + 1)..b : text[k] # "\n"
               /\ \A k \in (b + 1)..(q - 1) : text[k] \in SpaceToks

\* A detectType for which every text that is not JSON is a string.
detectType_NoPhp(output) ==
    LET trimmedOutput == Trim(output)
        parsed == JsonParse(trimmedOutput)
    IN  IF trimmedOutput = <<>> THEN "String"
        ELSE IF parsed.end # 0
        THEN CASE parsed.value.type = "null" -> "Null"
               [] parsed.value.type = "boolean" -> "Boolean"
               [] parsed.value.type = "number" -> "Number"
               [] parsed.value.type = "array" -> "Array"
               [] parsed.value.type = "object" -> "Object"
               [] OTHER -> "JSON"
        ELSE "String"

\* OutputDetector.detectType: the name of the OutputType.
detectType(output) ==
    LET trimmedOutput == Trim(output)
        parsed == JsonParse(trimmedOutput)
    IN  IF trimmedOutput = <<>> THEN "String"
        ELSE IF parsed.end # 0
        THEN CASE parsed.value.type = "null" -> "Null"
               [] parsed.value.type = "boolean" -> "Boolean"
               [] parsed.value.type = "number" -> "Number"
               [] parsed.value.type = "array" -> "Array"
               [] parsed.value.type = "object" -> "Object"
               [] OTHER -> "JSON"
        ELSE IF StartsWith(trimmedOutput, "array(") \/ MatchesBracketLine(trimmedOutput)
        THEN "PHPArray"
        ELSE IF StartsWith(trimmedOutput, "object(") \/ MatchesSetState(trimmedOutput)
        THEN "PHPObject"
        ELSE "String"

\* The formatter classes whose instances are followed call by call.
InstanceClasses == {"JsonFormatter", "ArrayFormatter"}

\* {"level1":{"level2":{"level3":{"level4":"deep"}}}}
DeepObject ==
    <<"{", Quote, "level1", Quote, ":", "{", Quote, "level2", Quote, ":",
      "{", Quote, "level3", Quote, ":", "{", Quote, "level4", Quote, ":",
      Quote, "deep", Quote, "}", "}", "}", "}">>

\* The outputs given to the formatter instances and to detectType.
RenderOutputs ==
    { DeepObject,
      <<"[", "5", ",", "[", Quote, "deep", Quote, "]", "]">>,
      <<"{", Quote, "a", Quote, ":", " ", "5", "}", "\n">>,
      <<"[", "5", ",", "]">>,
      <<"array(", "5", ",", " ", Quote, "b", Quote, ")">>,
      <<"array(", Quote, "a", Quote, " ", "=>", " ", "5", ")">>,
      <<"a", " ", "b">>,
      <<>> }

\* More outputs given to detectType.
DetectOutputs ==
    RenderOutputs \cup FormatOutputs
    \cup { <<"null">>, <<"true">>, <<"5">>, <<Quote, "a", Quote>>,
           <<"a", "\n", "[", "b", "]">> }

\* No call on a formatter instance has been made.
NoCall ==
    [op |-> "none", formatter |-> "none", output |-> <<>>,
     options |-> NoMaxDepth, raw |-> <<>>, returned |-> <<>>]

\* The classes that implement IOutputFormatter; a formatter is modelled by
\* its class, an instance by its position in the manager's list.
FormatterClasses == {"JsonFormatter", "ArrayFormatter", "ObjectFormatter", "StringFormatter"}

\* formatter.canFormat(output)
canFormat(formatter, output) ==
    CASE formatter = "JsonFormatter" -> JsonCanFormat(output)
      [] formatter = "ArrayFormatter" -> ArrayCanFormat(output)
      [] formatter = "ObjectFormatter" -> ObjectCanFormat(output)
      [] formatter = "StringFormatter" -> StringCanFormat(output)

\* OutputFormatterManager.registerFormatter
registerFormatter(list, formatter) == Append(list, formatter)

\* The constructor's four registrations, lines 27-30.
ConstructedFormatters ==
    registerFormatter(registerFormatter(registerFormatter(registerFormatter(
        <<>>, "JsonFormatter"), "ArrayFormatter"), "ObjectFormatter"), "StringFormatter")

\* The positions of list whose formatter accepts output.
Accepting(output, list) == {i \in 1..Len(list) : canFormat(list[i], output)}

\* A search that keeps the last formatter that accepts.
findFormatter_LastAccepting(output, list) ==
    LET acc == Accepting(output, list) IN
    IF acc = {} THEN 0 ELSE CHOOSE i \in acc : \A j \in acc : j <= i

\* OutputDetector.findFormatter: Array.prototype.find returns the first
\* element whose canFormat is true; the position, 0 for undefined.
findFormatter(output, list) ==
    LET acc == Accepting(output, list) IN
    IF acc = {} THEN 0 ELSE CHOOSE i \in acc : \A j \in acc : i <= j

\* The canFormat calls of that search: find stops at the element it returns.
CanFormatCalls(output, list) ==
    LET found == findFormatter(output, list) IN
    [i \in 1..(IF found = 0 THEN Len(list) ELSE found) |-> i]

NoOutputGenerated == <<"No output generated">>

\* formatter.format(result, options): the rendering of output by the
\* formatter at a position of the list.
Format(list, position, output) ==
    [by |-> position, formatter |-> list[position], output |-> output]

\* OutputFormatterManager.formatOutput: [calls, formatted].
ManagerFormatOutput(output, list) ==
    IF Trim(output) = <<>>
    THEN [calls |-> <<>>, formatted |-> NoOutputGenerated]
    ELSE LET found == findFormatter(output, list) IN
         [calls |-> CanFormatCalls(output, list),
          formatted |-> IF found # 0 THEN Format(list, found, output) ELSE output]

\* ----------------------------------------------------------- activation
\* What an earlier session can have left behind: maps the manager saved.
PriorEntry(blockId, result) ==
    [id |-> blockId, state |-> Success,
     lastExecutionTime |-> DateOf(0), lastResult |-> result]

PriorResult == Result(<<"1">>, NoError, 0)

PriorStores ==
    { [states |-> EmptyMap, results |-> EmptyMap],
      [states  |-> [k \in {IdProto} |-> PriorEntry(k, PriorResult)],
       results |-> [k \in {IdProto} |-> PriorResult]] }

\* No call checked on its own has been made.
NoCalls ==
    /\ refContent = <<>>
    /\ refProcessed = <<>>
    /\ docSegments = <<>>
    /\ docBlocks = <<>>
    /\ formatters = ConstructedFormatters
    /\ fmtOutput = <<>>
    /\ fmtCalls = <<>>
    /\ fmtFormatted = <<>>
    /\ circSelf = <<>>
    /\ circText = <<>>
    /\ circResult = FALSE
    /\ rawOutput = [formatter \in InstanceClasses |-> <<>>]
    /\ lastCall = NoCall

IdleRun ==
    [pc |-> "idle", id |-> IdA, log |-> <<>>,
     overlapped |-> {}, wrote |-> NoResult]

\* A fall-back that never reads the context storage.
LoadFallback_MapsLeft(st, res, w) == [states |-> st, results |-> res]

\* loadState's fall-back, lines 170-178: each map is replaced by the copy in
\* the context storage when there is one.
LoadFallback(st, res, w) ==
    [states  |-> IF w.set THEN w.states ELSE st,
     results |-> IF w.set THEN w.results ELSE res]

\* loadState up to its first await (line 144), as activate() calls it on the
\* fresh manager: with a file on disk the read is in flight; otherwise the
\* fall-back has run already.
ActivationLoad(hasFile, f, w) ==
    IF hasFile /\ f.kind # "absent"
    THEN [pc |-> "reading", states |-> EmptyMap, results |-> EmptyMap]
    ELSE [pc |-> "done"] @@ LoadFallback(EmptyMap, EmptyMap, w)

InitParse ==
    /\ usedIds = {}
    /\ blocks = <<>>
    /\ nextLine = 0
    /\ passes = 0

InitSession(hasFile, clock) ==
    /\ InitParse
    /\ stateFile = hasFile
    /\ file \in IF stateFile
                THEN {Absent, Corrupt} \cup
                     {DocFile(SaveData(p.states, p.results)) : p \in PriorStores}
                ELSE {Absent}
    /\ ws \in {WsUnset} \cup {WsOf(p.states, p.results) : p \in PriorStores}
    /\ LET l == ActivationLoad(stateFile, file, ws)
       IN  /\ loadPc = l.pc
           /\ states = l.states
           /\ results = l.results
    /\ loadData = Absent
    /\ pending = <<>>
    /\ now \in clock
    /\ runs = [r \in 1..MaxRuns |-> IdleRun]
    /\ nextRun = 1
    /\ completions = <<>>
    /\ clears = 0
    /\ NoCalls

\* The build whose status display reads the store directly (CodeLens): no
\* decorator is constructed and its map is never written.
NoDecorator == blockStatusMap = EmptyMap

\* ------------------------------------------------------------ persistence
SetStore(S) ==
    /\ states' = S.states
    /\ results' = S.results
    /\ pending' = S.pending
    /\ ws' = S.ws

CurrentStore == Store(states, results, pending, ws)

RemoveAt(seq, i) == SubSeq(seq, 1, i - 1) \o SubSeq(seq, i + 1, Len(seq))

\* saveState after its await, lines 126-134: one write in flight lands (or
\* fails, which is logged), then the context storage gets the maps as they
\* are now.
WriteFile(i, ok) ==
    /\ i \in 1..Len(pending)
    /\ file' = IF ok THEN DocFile(pending[i]) ELSE file
    /\ pending' = RemoveAt(pending, i)
    /\ ws' = WsOf(states, results)
    /\ UNCHANGED <<states, results, stateFile, loadPc, loadData, now, clears>>
    /\ UNCHANGED decoratorVars
    /\ UNCHANGED runVars
    /\ UNCHANGED parseVars
    /\ UNCHANGED pureVars

\* loadState, line 144: readFile produces what is on disk now.
LoadRead ==
    /\ loadPc = "reading"
    /\ loadData' = file
    /\ loadPc' = "read"
    /\ UNCHANGED <<now, clears>>
    /\ UNCHANGED storeVars
    /\ UNCHANGED diskVars
    /\ UNCHANGED decoratorVars
    /\ UNCHANGED runVars
    /\ UNCHANGED parseVars
    /\ UNCHANGED pureVars

\* A load that merges the document into the maps instead of replacing them.
LoadOutcome_Merged(data, st, res, w) ==
    IF data.kind = "doc"
    THEN [states  |-> ParseData(data.doc).states @@ st,
          results |-> ParseData(data.doc).results @@ res]
    ELSE LoadFallback(st, res, w)

\* What loadState leaves in the two maps once readFile has produced data:
\* the parsed document's maps, or the fall-back when reading or parsing threw.
LoadOutcome(data, st, res, w) ==
    IF data.kind = "doc"
    THEN ParseData(data.doc)
    ELSE LoadFallback(st, res, w)

\* loadState, lines 145-178: the continuation after the read.
LoadResume ==
    /\ loadPc = "read"
    /\ LET out == LoadOutcome(loadData, states, results, ws)
       IN  /\ states' = out.states
           /\ results' = out.results
    /\ loadPc' = "done"
    /\ UNCHANGED <<pending, ws, loadData, now, clears>>
    /\ UNCHANGED diskVars
    /\ UNCHANGED decoratorVars
    /\ UNCHANGED runVars
    /\ UNCHANGED parseVars
    /\ UNCHANGED pureVars

\* The clock advances.
Tick ==
    /\ now < MaxTime
    /\ now' = now + 1
    /\ UNCHANGED clears
    /\ UNCHANGED storeVars
    /\ UNCHANGED diskVars
    /\ UNCHANGED decoratorVars
    /\ UNCHANGED loadVars
    /\ UNCHANGED runVars
    /\ UNCHANGED parseVars
    /\ UNCHANGED pureVars

\* The clearBlockStates command.
ClearBlockStates ==
    /\ clears < MaxClears
    /\ clears' = clears + 1
    /\ SetStore(clearAllStates(CurrentStore))
    /\ UNCHANGED now
    /\ UNCHANGED diskVars
    /\ UNCHANGED decoratorVars
    /\ UNCHANGED loadVars
    /\ UNCHANGED runVars
    /\ UNCHANGED parseVars
    /\ UNCHANGED pureVars

\* -------------------------------------------------------- executeCodeBlock
\* A run that notices the cycle and goes on to the executor all the same.
RunStart_CycleNotFatal(S, blockId, content) ==
    LET S1 == setBlockState(S, blockId, Executing, NoResult)
        circular == hasCircularReferences(blockId, content, S1.states)
        resolve == IF Marker \in Range(content) THEN <<"processContent">> ELSE <<>>
    IN  [store |-> S1,
         pc |-> "awaiting",
         log |-> <<"setExecuting">> \o (IF circular THEN <<"circular">> ELSE <<>>)
                 \o resolve \o <<"invokeExecutor">>]

\* The run up to its first await, lines 219-253 (or to the end of the catch
\* block, lines 282-305, when the circular check throws): everything here
\* runs without yielding.  The log records the calls in the order the code
\* makes them.
RunStart(S, blockId, content) ==
    LET S1 == setBlockState(S, blockId, Executing, NoResult)
        circular == hasCircularReferences(blockId, content, S1.states)
        resolve == IF Marker \in Range(content) THEN <<"processContent">> ELSE <<>>
    IN  IF circular
        THEN [store |-> setBlockState(S1, blockId, Error, NoResult),
              pc |-> "done",
              log |-> <<"setExecuting", "circular", "setError">>]
        ELSE [store |-> S1,
              pc |-> "awaiting",
              log |-> <<"setExecuting">> \o resolve \o <<"invokeExecutor">>]

ExecuteCodeBlock(blockId, content) ==
    /\ nextRun <= MaxRuns
    /\ LET r == nextRun
           out == RunStart(CurrentStore, blockId, content)
       IN  /\ SetStore(out.store)
           /\ runs' = [runs EXCEPT ![r] =
                  [pc |-> out.pc, id |-> blockId, log |-> out.log,
                   overlapped |-> {q \in 1..MaxRuns :
                                     runs[q].pc = "awaiting" /\ runs[q].id = blockId},
                   wrote |-> IF out.pc = "done"
                             THEN [state |-> Error, result |-> NoResult]
                             ELSE NoResult]]
           /\ completions' = IF out.pc = "done" THEN Append(completions, r)
                             ELSE completions
    /\ nextRun' = nextRun + 1
    /\ UNCHANGED <<now, clears>>
    /\ UNCHANGED diskVars
    /\ UNCHANGED decoratorVars
    /\ UNCHANGED loadVars
    /\ UNCHANGED parseVars
    /\ UNCHANGED pureVars

\* A run that records Success whatever the result says.
ResultState_AlwaysSuccess(result) == Success

\* The lifecycle state the run records for the executor's result,
\* lines 258-263.
ResultState(result) == IF result.error # NoError THEN Error ELSE Success

\* The run after the executor's promise resolves, lines 248-280.
RunFinish(S, blockId, result) ==
    setBlockState(S, blockId, ResultState(result), result)

ExecutorReturns(r, result) ==
    /\ runs[r].pc = "awaiting"
    /\ SetStore(RunFinish(CurrentStore, runs[r].id, result))
    /\ runs' = [runs EXCEPT ![r].pc = "done",
                            ![r].log = @ \o <<IF ResultState(result) = Error
                                               THEN "setError" ELSE "setSuccess">>,
                            ![r].wrote = [state |-> ResultState(result),
                                          result |-> result]]
    /\ completions' = Append(completions, r)
    /\ UNCHANGED <<nextRun, now, clears>>
    /\ UNCHANGED diskVars
    /\ UNCHANGED decoratorVars
    /\ UNCHANGED loadVars
    /\ UNCHANGED parseVars
    /\ UNCHANGED pureVars

\* A catch block that also forgets every other block.
RunCatch_OthersDropped(S, blockId) ==
    setBlockState(clearAllStates(S), blockId, Error, NoResult)

\* A catch block that records nothing.
RunCatch_NothingRecorded(S, blockId) == S

\* The catch block, lines 282-284, for a step that throws after the await.
RunCatch(S, blockId) == setBlockState(S, blockId, Error, NoResult)

StepThrows(r) ==
    /\ runs[r].pc = "awaiting"
    /\ SetStore(RunCatch(CurrentStore, runs[r].id))
    /\ runs' = [runs EXCEPT ![r].pc = "done",
                            ![r].log = @ \o <<"throw", "setError">>,
                            ![r].wrote = [state |-> Error, result |-> NoResult]]
    /\ completions' = Append(completions, r)
    /\ UNCHANGED <<nextRun, now, clears>>
    /\ UNCHANGED diskVars
    /\ UNCHANGED decoratorVars
    /\ UNCHANGED loadVars
    /\ UNCHANGED parseVars
    /\ UNCHANGED pureVars

\* The message of the Error the circular check throws, line 231.
CircularMessage ==
    <<"Circular reference detected in ", "$tinker_outputs", " references">>

\* The message of an Error thrown by a step after the await.
OtherMessage == <<"failed">>

\* The catch block's showErrorMessage, lines 299-300, for a run with the
\* given log: the text shown to the user, or nothing for a run that did not
\* reach the catch block.
ShownErrorMessage(log) ==
    IF "circular" \in Range(log) THEN <<"Error executing code: ">> \o CircularMessage
    ELSE IF "throw" \in Range(log) THEN <<"Error executing code: ">> \o OtherMessage
    ELSE <<>>

\* ---------------------------------------------------- CodeBlockDetector
\* The three backticks of a fence.
FenceTok == "~~~"

\* The end of the longest run of white space of text from position i on
\* (i - 1 when there is none).
RECURSIVE SpaceRunEnd(_, _)
SpaceRunEnd(text, i) ==
    IF i <= Len(text) /\ text[i] \in SpaceToks THEN SpaceRunEnd(text, i + 1) ELSE i - 1

\* The positions of the line ends of text within i..j.
NewlinesIn(text, i, j) == {k \in i..j : text[k] = "\n"}

\* The positions of the fence marks of text from position i on.
FencesFrom(text, i) == {k \in i..Len(text) : text[k] = FenceTok}

Max(S) == CHOOSE x \in S : \A y \in S : y <= x
Min(S) == CHOOSE x \in S : \A y \in S : x <= y

\* One attempt of codeBlockRegex at position i of text (line 47):
\* fence (php|tinker) (:name)? \s*\n (content, lazy) fence.  The greedy \s*
\* takes the white space up to the last line end of the run that follows
\* the header; the content ends before the next fence mark.
MatchAt(text, i) ==
    LET hasKind == /\ text[i] = FenceTok
                   /\ i + 1 <= Len(text)
                   /\ text[i + 1] \in Languages
        hasName == /\ i + 3 <= Len(text)
                   /\ text[i + 2] = ":"
                   /\ text[i + 3] \in WordToks
        nameEnd == IF hasName THEN WordRunEnd(text, i + 3) ELSE i + 1
        spaceEnd == SpaceRunEnd(text, nameEnd + 1)
        lineEnds == NewlinesIn(text, nameEnd + 1, spaceEnd)
        contentStart == Max(lineEnds) + 1
        closing == FencesFrom(text, contentStart)
    IN  IF hasKind /\ lineEnds # {} /\ closing # {}
        THEN [matched |-> TRUE,
              language |-> text[i + 1],
              customId |-> IF hasName THEN SubSeq(text, i + 3, nameEnd) ELSE NoName,
              content |-> SubSeq(text, contentStart, Min(closing) - 1),
              last |-> Min(closing)]
        ELSE [matched |-> FALSE]

\* String.prototype.indexOf: the offset (from 0) of the first occurrence of
\* part in text, -1 when there is none; the empty text occurs at offset 0.
IndexOf(text, part) ==
    LET at == {j \in 0..(Len(text) - Len(part)) :
                  SubSeq(text, j + 1, j + Len(part)) = part}
    IN  IF at = {} THEN -1 ELSE Min(at)

\* document.positionAt(offset): the line is the number of line ends before
\* the offset, the character the distance from the last of them.
PositionAt(text, offset) ==
    LET before == NewlinesIn(text, 1, offset)
    IN  [line |-> Cardinality(before),
         character |-> IF before = {} THEN offset ELSE offset - Max(before)]

\* The content range and the lines of the block of a match, lines 61-74:
\* the content is looked up in the matched text with indexOf.
ContentPositions(text, i, m) ==
    LET index == i - 1
        match0 == SubSeq(text, i, m.last)
        contentStartPos == PositionAt(text, index + IndexOf(match0, m.content))
        contentEndPos ==
            PositionAt(text, index + IndexOf(match0, m.content) + Len(m.content))
    IN  [contentRange |-> [start |-> contentStartPos, end |-> contentEndPos],
         startLine |-> contentStartPos.line,
         endLine |-> contentEndPos.line]

\* The loop of codeBlockRegex.exec over text from position i on, lines
\* 50-86: the matches in order, each attempt starting after the last match.
RECURSIVE ExecAll(_, _)
ExecAll(text, i) ==
    IF i > Len(text) THEN <<>>
    ELSE LET m == MatchAt(text, i)
         IN  IF m.matched
             THEN <<[language |-> m.language, customId |-> m.customId,
                     content |-> m.content] @@ ContentPositions(text, i, m)>>
                  \o ExecAll(text, m.last + 1)
             ELSE ExecAll(text, i + 1)

\* The pieces a markdown document is written from: prose, and well-formed
\* fences of a kind, with or without a name, around an inner text.
Prose(body) == [kind |-> "prose", name |-> NoName, body |-> body]
Fence(kind, name, body) == [kind |-> kind, name |-> name, body |-> body]

Segments ==
    { Prose(<<"x", "\n">>),
      Fence("php", NoName, <<"x", "\n">>),
      Fence("tinker", IdA, <<" ", "x", "\n">>),
      Fence("php", NoName, <<"\n", "x", "\n">>),
      Fence("php", IdB, <<>>),
      Fence("js", NoName, <<"x", "\n">>) }

\* The text of one piece: a fence is its opening line, its inner text, and
\* its closing line.
SegmentText(seg) ==
    IF seg.kind = "prose" THEN seg.body
    ELSE <<FenceTok, seg.kind>>
         \o (IF seg.name # NoName THEN <<":">> \o seg.name ELSE <<>>)
         \o <<"\n">> \o seg.body \o <<FenceTok, "\n">>

\* document.getText()
RECURSIVE DocumentText(_)
DocumentText(segs) ==
    IF segs = <<>> THEN <<>> ELSE SegmentText(Head(segs)) \o DocumentText(Tail(segs))

\* The documents of at most n pieces.
RECURSIVE Documents(_)
Documents(n) ==
    IF n = 0 THEN {<<>>}
    ELSE Documents(n - 1) \cup
         {Append(d, seg) : d \in {x \in Documents(n - 1) : Len(x) = n - 1},
                           seg \in Segments}

\* findCodeBlocks(document), lines 40-88, as far as the fences it
\* recognizes, their kinds, names and contents go.
ParseDocument(segs) ==
    /\ docSegments' = segs
    /\ docBlocks' = ExecAll(DocumentText(segs), 1)
    /\ UNCHANGED refVars
    /\ UNCHANGED fmtVars
    /\ UNCHANGED circVars
    /\ UNCHANGED instVars
    /\ UNCHANGED sessionVars
    /\ UNCHANGED parseVars

\* findCodeBlocks up to its loop, lines 34-47: a new pass over a document.
FindCodeBlocks ==
    /\ passes < MaxPasses
    /\ passes' = passes + 1
    /\ usedIds' = clearUsedIds(usedIds)
    /\ blocks' = <<>>
    /\ nextLine' = 0
    /\ UNCHANGED <<now, clears>>
    /\ UNCHANGED storeVars
    /\ UNCHANGED diskVars
    /\ UNCHANGED decoratorVars
    /\ UNCHANGED loadVars
    /\ UNCHANGED runVars
    /\ UNCHANGED pureVars

\* One iteration of the loop, lines 50-86: the next fence of the document.
MatchFence(language, customId, content, startLine) ==
    /\ passes >= 1
    /\ Len(blocks) < MaxBlocks
    /\ startLine \in nextLine..MaxLine
    /\ LET block == [language |-> language, content |-> content,
                     startLine |-> startLine, customId |-> customId]
           out == generateId(usedIds, block, customId)
       IN  /\ blocks' = Append(blocks, block @@ [id |-> out.id])
           /\ usedIds' = out.used
    /\ nextLine' = startLine + 1
    /\ UNCHANGED <<passes, now, clears>>
    /\ UNCHANGED storeVars
    /\ UNCHANGED diskVars
    /\ UNCHANGED decoratorVars
    /\ UNCHANGED loadVars
    /\ UNCHANGED runVars
    /\ UNCHANGED pureVars

\* ------------------------------------------- resolving result references
\* A run of blockId has ended with result: the store's part of the run's
\* completion, lines 258-263.
RecordResult(blockId, result) ==
    /\ SetStore(RunFinish(CurrentStore, blockId, result))
    /\ UNCHANGED <<now, clears>>
    /\ UNCHANGED diskVars
    /\ UNCHANGED loadVars
    /\ UNCHANGED runVars
    /\ UNCHANGED decoratorVars
    /\ UNCHANGED parseVars
    /\ UNCHANGED pureVars

\* The call processContent(codeBlock.content), lines 235-242.
ProcessContent(text) ==
    /\ refContent' = text
    /\ refProcessed' = processContent(text, results)
    /\ UNCHANGED docVars
    /\ UNCHANGED fmtVars
    /\ UNCHANGED circVars
    /\ UNCHANGED instVars
    /\ UNCHANGED sessionVars
    /\ UNCHANGED parseVars

\* The call hasCircularReferences(codeBlock.id, codeBlock.content),
\* line 229, against the entries the manager holds.
HasCircularReferences(blockId, text) ==
    /\ circSelf' = blockId
    /\ circText' = text
    /\ circResult' = hasCircularReferences(blockId, text, states)
    /\ UNCHANGED <<refVars, docVars, fmtVars, instVars>>
    /\ UNCHANGED sessionVars
    /\ UNCHANGED parseVars

\* ------------------------------------------------------ formatter instances
\* canFormat(output) on the JSON or the array formatter: a call that accepts
\* keeps the trimmed output in rawOutput.
InstanceCanFormat(formatter, output) ==
    LET accepts == canFormat(formatter, output)
    IN  /\ rawOutput' = IF accepts
                        THEN [rawOutput EXCEPT ![formatter] = Trim(output)]
                        ELSE rawOutput
        /\ lastCall' = [op |-> "canFormat", formatter |-> formatter,
                        output |-> output, options |-> NoMaxDepth,
                        raw |-> rawOutput[formatter], returned |-> accepts]
        /\ UNCHANGED <<refVars, docVars, fmtVars, circVars>>
        /\ UNCHANGED sessionVars
        /\ UNCHANGED parseVars

\* format(result, options) on the JSON or the array formatter, for a result
\* whose output is output.
InstanceFormat(formatter, output, options) ==
    /\ lastCall' = [op |-> "format", formatter |-> formatter,
                    output |-> output, options |-> options,
                    raw |-> rawOutput[formatter],
                    returned |->
                        IF formatter = "JsonFormatter"
                        THEN JsonFormat(rawOutput[formatter], output, options)
                        ELSE ArrayFormat(rawOutput[formatter], output, options)]
    /\ UNCHANGED rawOutput
    /\ UNCHANGED <<refVars, docVars, fmtVars, circVars>>
    /\ UNCHANGED sessionVars
    /\ UNCHANGED parseVars

\* OutputDetector.detectType(output)
DetectType(output) ==
    /\ lastCall' = [op |-> "detectType", formatter |-> "OutputDetector",
                    output |-> output, options |-> NoMaxDepth,
                    raw |-> <<>>, returned |-> detectType(output)]
    /\ UNCHANGED rawOutput
    /\ UNCHANGED <<refVars, docVars, fmtVars, circVars>>
    /\ UNCHANGED sessionVars
    /\ UNCHANGED parseVars

\* -------------------------------------------------- OutputFormatterManager
\* registerFormatter(formatter) on the manager.
RegisterFormatter(formatter) ==
    /\ Len(formatters) < Len(ConstructedFormatters) + MaxRegistered
    /\ formatters' = registerFormatter(formatters, formatter)
    /\ UNCHANGED <<fmtOutput, fmtCalls, fmtFormatted>>
    /\ UNCHANGED <<refVars, docVars, circVars, instVars>>
    /\ UNCHANGED sessionVars
    /\ UNCHANGED parseVars

\* formatOutput(result) on the manager, for a result that printed output.
FormatOutput(output) ==
    /\ fmtOutput' = output
    /\ fmtCalls' = ManagerFormatOutput(output, formatters).calls
    /\ fmtFormatted' = ManagerFormatOutput(output, formatters).formatted
    /\ UNCHANGED formatters
    /\ UNCHANGED <<refVars, docVars, circVars, instVars>>
    /\ UNCHANGED sessionVars
    /\ UNCHANGED parseVars

\* ------------------------------------------------------ CodeBlockDecorator
\* The constructor, lines 70-76: the map starts as a copy of the lifecycle
\* states the manager holds at that moment.
DecoratorLoad(st) == [k \in DOMAIN st |-> st[k].state]

\* CodeBlockDecorator.getBlockState: the local map first, then the manager's
\* entry, then NotExecuted.
DecoratorGetBlockState(map, st, blockId) ==
    IF blockId \in DOMAIN map THEN map[blockId]
    ELSE IF getBlockState(st, blockId) # NoResult
         THEN getBlockState(st, blockId).state
         ELSE NotExecuted

\* CodeBlockDecorator.setBlockState: the local map's part; the call to the
\* manager's setBlockState is made by the action that uses it.
DecoratorSetBlockState(map, blockId, state) == Put(map, blockId, state)

\* CodeBlockDecorator.resetAllBlockStates
resetAllBlockStates(map) == EmptyMap

\* executeCodeBlock of the build with the decorator, up to its first await:
\* the same calls as RunStart, each setBlockState going through the
\* decorator.
DecoratorExecuteCodeBlock(blockId, content) ==
    /\ nextRun <= MaxRuns
    /\ LET r == nextRun
           out == RunStart(CurrentStore, blockId, content)
           m1 == DecoratorSetBlockState(blockStatusMap, blockId, Executing)
       IN  /\ SetStore(out.store)
           /\ blockStatusMap' = IF out.pc = "done"
                                THEN DecoratorSetBlockState(m1, blockId, Error)
                                ELSE m1
           /\ runs' = [runs EXCEPT ![r] =
                  [pc |-> out.pc, id |-> blockId, log |-> out.log,
                   overlapped |-> {q \in 1..MaxRuns :
                                     runs[q].pc = "awaiting" /\ runs[q].id = blockId},
                   wrote |-> IF out.pc = "done"
                             THEN [state |-> Error, result |-> NoResult]
                             ELSE NoResult]]
           /\ completions' = IF out.pc = "done" THEN Append(completions, r)
                             ELSE completions
    /\ nextRun' = nextRun + 1
    /\ UNCHANGED <<now, clears>>
    /\ UNCHANGED diskVars
    /\ UNCHANGED loadVars
    /\ UNCHANGED parseVars
    /\ UNCHANGED pureVars

\* The same run after the executor's promise resolves, lines 171-203.
DecoratorExecutorReturns(r, result) ==
    /\ runs[r].pc = "awaiting"
    /\ SetStore(RunFinish(CurrentStore, runs[r].id, result))
    /\ blockStatusMap' =
           DecoratorSetBlockState(blockStatusMap, runs[r].id, ResultState(result))
    /\ runs' = [runs EXCEPT ![r].pc = "done",
                            ![r].log = @ \o <<IF ResultState(result) = Error
                                               THEN "setError" ELSE "setSuccess">>,
                            ![r].wrote = [state |-> ResultState(result),
                                          result |-> result]]
    /\ completions' = Append(completions, r)
    /\ UNCHANGED <<nextRun, now, clears>>
    /\ UNCHANGED diskVars
    /\ UNCHANGED loadVars
    /\ UNCHANGED parseVars
    /\ UNCHANGED pureVars

\* Its catch block, lines 205-227, for a step that throws after the await.
DecoratorStepThrows(r) ==
    /\ runs[r].pc = "awaiting"
    /\ SetStore(RunCatch(CurrentStore, runs[r].id))
    /\ blockStatusMap' = DecoratorSetBlockState(blockStatusMap, runs[r].id, Error)
    /\ runs' = [runs EXCEPT ![r].pc = "done",
                            ![r].log = @ \o <<"throw", "setError">>,
                            ![r].wrote = [state |-> Error, result |-> NoResult]]
    /\ completions' = Append(completions, r)
    /\ UNCHANGED <<nextRun, now, clears>>
    /\ UNCHANGED diskVars
    /\ UNCHANGED loadVars
    /\ UNCHANGED parseVars
    /\ UNCHANGED pureVars

\* The clearBlockStates command of the build with the decorator,
\* lines 254-266: only the decorator is reset.
ResetBlockStates ==
    /\ clears < MaxClears
    /\ clears' = clears + 1
    /\ blockStatusMap' = resetAllBlockStates(blockStatusMap)
    /\ UNCHANGED now
    /\ UNCHANGED storeVars
    /\ UNCHANGED diskVars
    /\ UNCHANGED loadVars
    /\ UNCHANGED runVars
    /\ UNCHANGED parseVars
    /\ UNCHANGED pureVars

\* ---------------------------------------------------------- specification
\* Spec: a session without a workspace folder; the context storage is the
\* only sink and saveState never suspends.
Init == InitSession(FALSE, {0}) /\ NoDecorator

Run ==
    \E blockId \in RunIds, content \in Contents : ExecuteCodeBlock(blockId, content)
Return == \E r \in 1..MaxRuns, result \in Results : ExecutorReturns(r, result)
Throw == \E r \in 1..MaxRuns : StepThrows(r)

Next ==
    \/ Run
    \/ Return
    \/ Throw
    \/ Tick
    \/ ClearBlockStates

Spec == Init /\ [][Next]_vars

\* FileSpec: a session with a state file; activate() has started loadState
\* and every saveState has a write in flight.
InitFile == InitSession(TRUE, 0..MaxTime) /\ NoDecorator

FileRun ==
    /\ nextRun <= MaxFileRuns
    /\ \E blockId \in FileIds, content \in FileContents :
           ExecuteCodeBlock(blockId, content)
Write == \E i \in 1..(2 * MaxRuns + MaxClears), ok \in BOOLEAN : WriteFile(i, ok)

FileReturn ==
    \E r \in 1..MaxRuns, result \in FileResults : ExecutorReturns(r, result)

NextFile ==
    \/ FileRun
    \/ FileReturn
    \/ Throw
    \/ Write
    \/ LoadRead
    \/ LoadResume
    \/ ClearBlockStates

FileSpec == InitFile /\ [][NextFile]_vars

\* SaveSpec: the first session in a workspace folder (no state file yet, so
\* loadState has finished in activate()); every file write succeeds, and the
\* writes in flight land in any order.
InitSave == InitFile /\ ws = WsUnset /\ file = Absent

SaveRun ==
    \E blockId \in FileIds, content \in FileContents : ExecuteCodeBlock(blockId, content)
WriteLands == \E i \in 1..(2 * MaxRuns + MaxClears) : WriteFile(i, TRUE)

NextSave ==
    \/ SaveRun
    \/ FileReturn
    \/ Throw
    \/ WriteLands
    \/ ClearBlockStates

SaveSpec == InitSave /\ [][NextSave]_vars

\* NamedSpec: the session with a state file and an empty context storage, in
\* which the fence that is run can carry the explicit name __proto__.
InitNamed == InitFile /\ ws = WsUnset

NamedRun ==
    /\ nextRun <= MaxFileRuns
    /\ \E blockId \in FileIds \cup {IdProto}, content \in FileContents :
           ExecuteCodeBlock(blockId, content)

NextNamed ==
    \/ NamedRun
    \/ FileReturn
    \/ Throw
    \/ Write
    \/ LoadRead
    \/ LoadResume
    \/ ClearBlockStates

NamedSpec == InitNamed /\ [][NextNamed]_vars

\* DecoratorSpec: the session without a state file of the build whose status
\* display is the decorator; the decorator is constructed after loadState
\* has run its fall-back.
InitDecorator ==
    /\ InitSession(FALSE, {0})
    /\ blockStatusMap = DecoratorLoad(states)

DecoratorRun ==
    \E blockId \in RunIds, content \in Contents :
        DecoratorExecuteCodeBlock(blockId, content)
DecoratorReturn ==
    \E r \in 1..MaxRuns, result \in Results : DecoratorExecutorReturns(r, result)
DecoratorThrow == \E r \in 1..MaxRuns : DecoratorStepThrows(r)

NextDecorator ==
    \/ DecoratorRun
    \/ DecoratorReturn
    \/ DecoratorThrow
    \/ ResetBlockStates

DecoratorSpec == InitDecorator /\ [][NextDecorator]_vars

\* RefSpec: results are recorded for the ids and contents are resolved
\* against them.
Record == \E blockId \in RunIds, result \in RefResults : RecordResult(blockId, result)
Resolve == \E text \in RefContents : ProcessContent(text)

NextRefs ==
    \/ Record
    \/ Resolve

\* The context storage holds nothing from earlier sessions.
InitRefs == Init /\ ws = WsUnset

RefSpec == InitRefs /\ [][NextRefs]_vars

\* DocSpec: documents are parsed for their fences.
Parse == \E segs \in Documents(MaxSegments) : ParseDocument(segs)

NextDocs ==
    \/ Parse

\* The context storage holds nothing from earlier sessions.
InitDocs == Init /\ ws = WsUnset

DocSpec == InitDocs /\ [][NextDocs]_vars

\* CircSpec: results are recorded and contents are checked for cycles.
InitCirc == Init /\ ws = WsUnset

RecordCirc == \E blockId \in CircIds, result \in CircResults : RecordResult(blockId, result)
CheckCirc == \E blockId \in CircIds, text \in CircContents : HasCircularReferences(blockId, text)

NextCirc ==
    \/ RecordCirc
    \/ CheckCirc

CircSpec == InitCirc /\ [][NextCirc]_vars

\* FormatSpec: formatters are registered and outputs are formatted.
Register == \E formatter \in FormatterClasses : RegisterFormatter(formatter)
FormatCall == \E output \in FormatOutputs : FormatOutput(output)

NextFormat ==
    \/ Register
    \/ FormatCall

\* The context storage holds nothing from earlier sessions.
InitFormat == Init /\ ws = WsUnset

FormatSpec == InitFormat /\ [][NextFormat]_vars

\* FormatterSpec: calls on one JSON formatter, one array formatter and the
\* output detector, in any order.
CanFormatCall ==
    \E formatter \in InstanceClasses, output \in RenderOutputs :
        InstanceCanFormat(formatter, output)

FormatterFormat ==
    \E formatter \in InstanceClasses, output \in RenderOutputs,
       options \in FormattingOptions :
        InstanceFormat(formatter, output, options)

Detect == \E output \in DetectOutputs : DetectType(output)

NextFormatter ==
    \/ CanFormatCall
    \/ FormatterFormat
    \/ Detect

\* The context storage holds nothing from earlier sessions.
InitFormatter == Init /\ ws = WsUnset

FormatterSpec == InitFormatter /\ [][NextFormatter]_vars

\* IdSpec: parse passes of the detector over documents.
InitIds == Init /\ ws = WsUnset

Match ==
    \E language \in Languages, customId \in Names \cup {NoName},
       content \in FenceContents, startLine \in 0..MaxLine :
        MatchFence(language, customId, content, startLine)

NextIds ==
    \/ FindCodeBlocks
    \/ Match

IdSpec == InitIds /\ [][NextIds]_vars

\* FairSpec: Spec with an executor that terminates: a run that awaits the
\* executor is resumed, by its result or by a throwing step.
Finish(r) == (\E result \in Results : ExecutorReturns(r, result)) \/ StepThrows(r)

FairSpec == Spec /\ \A r \in 1..MaxRuns : WF_vars(Finish(r))

\* ================================================================= claims
Last(seq) == seq[Len(seq)]

\* The lifecycle state an id reads as: NotExecuted without an entry.
StateOf(st, blockId) ==
    IF blockId \in DOMAIN st THEN st[blockId].state ELSE NotExecuted

\* getBlockState(id)?.lastResult
LastResultOf(st, blockId) ==
    IF blockId \in DOMAIN st THEN st[blockId].lastResult ELSE NoResult

\* C1: within one parse pass the ids generateId assigns are pairwise
\* distinct, and a fence whose explicit name is not the id of an earlier
\* block of the pass gets exactly that name as its id.
C1_IdsDistinctExplicitVerbatim ==
    /\ \A i, j \in 1..Len(blocks) : i # j => blocks[i].id # blocks[j].id
    /\ \A i \in 1..Len(blocks) :
           (/\ blocks[i].customId # NoName
            /\ \A j \in 1..(i - 1) : blocks[j].id # blocks[i].customId)
           => blocks[i].id = blocks[i].customId

\* A pass in which a name was taken verbatim, the same name was asked for
\* again, and a generated candidate had to take a counter suffix.
C1_Witness ==
    /\ \E i, j \in 1..Len(blocks) :
           /\ i < j
           /\ blocks[i].customId # NoName
           /\ blocks[i].id = blocks[i].customId
           /\ blocks[j].customId = blocks[i].customId
           /\ blocks[j].id # blocks[j].customId
    /\ \E k \in 1..Len(blocks) : blocks[k].customId = NoName /\ Len(blocks[k].id) = 5

\* C2: a run whose circular check is true never resolves references and
\* never invokes the executor; it is over at once and leaves its id in Error.
C2_CircularRunAborts ==
    [][\A r \in 1..MaxRuns :
           (/\ runs[r].pc = "idle"
            /\ runs'[r].pc # "idle"
            /\ "circular" \in Range(runs'[r].log))
           => /\ "invokeExecutor" \notin Range(runs'[r].log)
              /\ "processContent" \notin Range(runs'[r].log)
              /\ runs'[r].pc = "done"
              /\ StateOf(states', runs'[r].id) = Error]_vars

\* A run aborted by a cycle that goes through another block's stored result.
C2_Witness ==
    \E r \in 1..MaxRuns :
        /\ runs[r].pc = "done"
        /\ "circular" \in Range(runs[r].log)
        /\ runs[r].id = IdA
        /\ StateOf(states, IdA) = Error
        /\ LastResultOf(states, IdB) # NoResult
        /\ IdA \in Range(detectReferences(LastResultOf(states, IdB).output))

\* The text `$tinker_outputs.<id>`.
RefTo(blockId) == <<Marker>> \o blockId

\* C3: hasCircularReferences(A, "$tinker_outputs.B") is true whenever the
\* result most recently stored for B has output text that references A, and
\* false when that text references nothing.
C3_CycleThroughStoredResult ==
    \A selfId \in RunIds, other \in RunIds :
        LET r == getResult(results, other)
        IN  (selfId # other /\ r # NoResult) =>
              /\ selfId \in Range(detectReferences(r.output))
                    => hasCircularReferences(selfId, RefTo(other), states)
              /\ detectReferences(r.output) = <<>>
                    => ~hasCircularReferences(selfId, RefTo(other), states)

\* C4: a run sets its id to Executing before the executor is invoked; a run
\* that awaits the executor is eventually over; and the step that ends a run
\* calls setBlockState with Success or Error, so the id is not left Executing.
C4_RunLifecycle ==
    /\ [][\A r \in 1..MaxRuns :
              (runs[r].pc = "idle" /\ runs'[r].pc = "awaiting")
              => /\ StateOf(states', runs'[r].id) = Executing
                 /\ Head(runs'[r].log) = "setExecuting"
                 /\ Last(runs'[r].log) = "invokeExecutor"]_vars
    /\ \A r \in 1..MaxRuns : (runs[r].pc = "awaiting") ~> (runs[r].pc = "done")
    /\ [][\A r \in 1..MaxRuns :
              (runs[r].pc # "done" /\ runs'[r].pc = "done")
              => /\ StateOf(states', runs'[r].id) \in {Success, Error}
                 /\ Last(runs'[r].log) \in {"setSuccess", "setError"}]_vars

\* Every way a run can end has happened: by the executor's result, by a
\* step that threw after the await, and by the circular check.
C4_Witness ==
    \E r1, r2 \in 1..MaxRuns :
        /\ runs[r1].pc = "done" /\ Last(runs[r1].log) = "setSuccess"
        /\ runs[r2].pc = "done" /\ "throw" \in Range(runs[r2].log)
        /\ StateOf(states, runs[r2].id) = Error

\* C5: setBlockState without a result leaves the id's stored result as it
\* was: getResult(id) and getBlockState(id).lastResult both still give the
\* result of the most recent setBlockState(id, _, r).
C5_ResultKeptWithoutResult ==
    \A blockId \in DOMAIN states :
        getResult(results, blockId) # NoResult
        => LastResultOf(states, blockId) = getResult(results, blockId)

\* C6: an entry of the states map stays until clearAllStates.
C6_EntryStaysUntilClear ==
    [][\A blockId \in DOMAIN states :
           blockId \in DOMAIN states' \/ clears' # clears]_vars

\* C7: loading what saveState has just written gives back the two maps.
C7_SaveLoadRoundTrip ==
    ParseData(SaveData(states, results)) = [states |-> states, results |-> results]

\* The step of loadState's continuation after a read that produced data.
LoadStep(kind) == loadPc = "read" /\ loadData.kind = kind /\ loadPc' = "done"

C9_LoadReplacesWholesale ==
    [][LoadStep("doc") =>
           LET doc == loadData.doc
           IN  /\ DOMAIN states' = DOMAIN doc.states
               /\ \A k \in DOMAIN doc.states :
                      /\ states'[k].id = doc.states[k].id
                      /\ states'[k].state = doc.states[k].state
                      /\ states'[k].lastResult = doc.states[k].lastResult
                      /\ ToISOString(states'[k].lastExecutionTime) =
                             doc.states[k].lastExecutionTime
               /\ results' = doc.results]_vars

\* A load has replaced the maps by a document that holds an entry stamped
\* after the clock's start, and the entry of a block run while the load was
\* in flight is gone although nothing was cleared.
C9_Witness ==
    /\ loadPc = "done"
    /\ loadData.kind = "doc"
    /\ clears = 0
    /\ \E r \in 1..MaxRuns : runs[r].pc # "idle" /\ runs[r].id \notin DOMAIN states

\* C10: when two runs of one id overlap, the step that ends the later one to
\* end stores what that run's completing setBlockState call wrote: its
\* lifecycle state and its result.
C10_LastCompletionWins ==
    [][\A r, q \in 1..MaxRuns :
           (/\ r # q
            /\ runs[q].pc = "done"
            /\ runs[r].pc = "awaiting"
            /\ runs'[r].pc = "done"
            /\ runs[q].id = runs[r].id
            /\ (q \in runs[r].overlapped \/ r \in runs[q].overlapped))
           => /\ StateOf(states', runs[r].id) = runs'[r].wrote.state
              /\ LastResultOf(states', runs[r].id) = runs'[r].wrote.result
              /\ runs'[r].wrote.result # NoResult
                    => getResult(results', runs[r].id) = runs'[r].wrote.result]_vars

\* Two overlapping runs of one id ended in the order opposite to their
\* start, with different outcomes, and the store holds the first run's.
C10_Witness ==
    /\ MaxRuns >= 2
    /\ completions = <<2, 1>>
    /\ runs[1].id = runs[2].id
    /\ 1 \in runs[2].overlapped
    /\ runs[1].wrote.state = Success
    /\ runs[2].wrote.state = Error
    /\ runs[2].wrote.result # NoResult
    /\ StateOf(states, runs[1].id) = Success
    /\ getResult(results, runs[1].id) = runs[1].wrote.result

\* C11: after the clearBlockStates command every id reads as NotExecuted,
\* the ids whose Success or Error the store had recorded included.
C11_ResetReadsNotExecuted ==
    [][clears' # clears =>
           \A blockId \in RunIds \cup {IdProto} :
               DecoratorGetBlockState(blockStatusMap', states', blockId) = NotExecuted]_vars

\* C12: processContent returns its argument unchanged when no id referenced
\* in it has a stored result, in particular when it holds no reference; a
\* reference to an id without a stored result stays as it was written.
C12_NoResultNoChange ==
    [][(UNCHANGED sessionVars /\ refContent' # <<>>) =>
           ((\A blockId \in Range(detectReferences(refContent')) :
                  getResult(results, blockId) = NoResult)
            => refProcessed' = refContent')]_vars

\* Contents with references were returned unchanged while results were
\* stored for other ids, and a content without a marker was returned
\* unchanged.
C12_Witness ==
    /\ refContent = <<Marker, "a", "b">>
    /\ refProcessed = refContent
    /\ getResult(results, IdA) # NoResult
    /\ getResult(results, IdB) # NoResult

\* The text is recognizable as a boolean.
IsBoolean(text) == ToLowerCase(text) \in {<<"true">>, <<"false">>}

\* The literal C13 states for a stored result, with the boolean either taken
\* verbatim or in lower case.
LiteralFor(result, booleanVerbatim) ==
    LET value == Trim(result.output)
    IN  CASE result.error # NoError -> <<"null">>
          [] result.error = NoError /\ value = <<>> -> <<"null">>
          [] result.error = NoError /\ value # <<>> /\ IsNumeric(value) -> value
          [] result.error = NoError /\ value # <<>> /\ ~IsNumeric(value)
             /\ IsBoolean(value) ->
                 IF booleanVerbatim THEN value ELSE ToLowerCase(value)
          [] OTHER -> <<"'">> \o EscapeQuotes(value) \o <<"'">>

\* What a processContent step returns for the contents `(<ref>)` and
\* `<ref> <ref>` whose ids all have stored results, given the literals.
SubstitutesLiterals(booleanVerbatim) ==
    (UNCHANGED sessionVars /\ refContent' # <<>>) =>
        /\ \A blockId \in RunIds :
               (/\ refContent' = <<"(">> \o RefTo(blockId) \o <<")">>
                /\ getResult(results, blockId) # NoResult)
               => refProcessed' =
                      <<"(">> \o LiteralFor(getResult(results, blockId), booleanVerbatim)
                      \o <<")">>
        /\ \A id1, id2 \in RunIds :
               (/\ refContent' = RefTo(id1) \o <<" ">> \o RefTo(id2)
                /\ getResult(results, id1) # NoResult
                /\ getResult(results, id2) # NoResult)
               => refProcessed' =
                      LiteralFor(getResult(results, id1), booleanVerbatim) \o <<" ">>
                      \o LiteralFor(getResult(results, id2), booleanVerbatim)

\* C13, as stated: every reference to an id with a stored result is replaced
\* by null for an error or a blank output, by the trimmed output verbatim
\* for a number or a boolean, and otherwise by the trimmed output with its
\* quotes escaped, in single quotes.
C13_BooleanVerbatim == [][SubstitutesLiterals(TRUE)]_vars

\* C13, amended: as above, except that a boolean in any case becomes the
\* lower-case literal true or false.
C13_BooleanLowerCase == [][SubstitutesLiterals(FALSE)]_vars

\* Two references were replaced in one call: one by the lower-case literal of
\* an upper-case boolean, the other by a quoted text with an escaped quote.
C13_Witness ==
    /\ refContent = <<Marker, "b", " ", Marker, "a">>
    /\ getResult(results, IdB) = Result(<<"TRUE">>, NoError, 0)
    /\ getResult(results, IdA) = Result(<<"a", "'", " ", "b">>, NoError, 0)
    /\ refProcessed = <<"true", " ", "'", "a", "\\", "'", " ", "b", "'">>

\* part occurs in text as a contiguous piece.
Contains(text, part) ==
    \E i \in 0..(Len(text) - Len(part)) : SubSeq(text, i + 1, i + Len(part)) = part

\* C14: the message shown for a run aborted by a circular reference names
\* the id of the block that was run.
C14_CircularMessageNamesId ==
    \A r \in 1..MaxRuns :
        (runs[r].pc = "done" /\ "circular" \in Range(runs[r].log))
        => Contains(ShownErrorMessage(runs[r].log), runs[r].id)

\* The ids of the blocks before the i-th of the pass.
EarlierIds(i) == {blocks[j].id : j \in 1..(i - 1)}

\* C15: a fence without an explicit name, or whose name is the id of an
\* earlier block of the pass, gets the candidate <kind>-<digest of content
\* and start line> when no earlier block has it, and otherwise the candidate
\* with the suffix -k for the least k >= 1 that no earlier block has; so the
\* second of two fences asking for one name does not get it.
C15_FallbackIsCandidateOrLeastSuffix ==
    \A i \in 1..Len(blocks) :
        LET b == blocks[i]
            candidate == <<b.language, "-",
                           Md5Hex8(b.content \o NumberToString(b.startLine))>>
            suffixed(k) == candidate \o <<"-">> \o NumberToString(k)
        IN  (b.customId = NoName \/ b.customId \in EarlierIds(i)) =>
              /\ b.id # b.customId
              /\ IF candidate \notin EarlierIds(i)
                 THEN b.id = candidate
                 ELSE \E k \in 1..MaxBlocks :
                          /\ b.id = suffixed(k)
                          /\ suffixed(k) \notin EarlierIds(i)
                          /\ \A k2 \in 1..(k - 1) : suffixed(k2) \in EarlierIds(i)

\* A pass in which a fence asked for a name an earlier fence had taken, and
\* a fence got the suffix -2 because the candidate and its -1 were taken.
C15_Witness ==
    /\ \E i \in 1..Len(blocks) :
           blocks[i].customId # NoName /\ blocks[i].customId \in EarlierIds(i)
    /\ \E i \in 1..Len(blocks) :
           Len(blocks[i].id) = 5 /\ blocks[i].id[5] = "2"

\* The ids a parser that has parsed nothing before assigns to the fences
\* fences[i..], given the ids used by the fences before them.
RECURSIVE IdsOfFreshParse(_, _, _)
IdsOfFreshParse(fences, i, used) ==
    IF i > Len(fences) THEN <<>>
    ELSE LET out == generateId(used, fences[i], fences[i].customId)
         IN  <<out.id>> \o IdsOfFreshParse(fences, i + 1, out.used)

\* C16: the ids of a pass depend on the fences of that pass only: they are
\* the ids a parser that has parsed nothing before assigns to the same
\* fences, whatever the same instance parsed in earlier passes; and only ids
\* of the current pass count as used.
C16_IdsDependOnTextOnly ==
    /\ [k \in 1..Len(blocks) |-> blocks[k].id] = IdsOfFreshParse(blocks, 1, {})
    /\ usedIds = {blocks[k].id : k \in 1..Len(blocks)}

\* A later pass of the same instance in which a fence took its explicit name
\* verbatim and a fence without a name took its candidate without a suffix.
C16_Witness ==
    /\ passes >= 2
    /\ \E i, j \in 1..Len(blocks) :
           /\ blocks[i].customId # NoName
           /\ blocks[i].id = blocks[i].customId
           /\ blocks[j].customId = NoName
           /\ Len(blocks[j].id) = 3

\* The fences of recognized kinds among the pieces of a document, in order.
RecognizedFences(segs) == SelectSeq(segs, LAMBDA seg : seg.kind \in Languages)

\* C17: for a document of well-formed fences, findCodeBlocks returns one
\* block per fence of a recognized kind, in source order, each with the kind
\* of its fence and with the fence's inner text as its content.
C17_OneBlockPerFenceExactContent ==
    LET fences == RecognizedFences(docSegments)
    IN  /\ Len(docBlocks) = Len(fences)
        /\ \A k \in 1..Len(fences) :
               /\ docBlocks[k].language = fences[k].kind
               /\ docBlocks[k].content = fences[k].body

\* C18: once setBlockState(id, Executing) has been called, getBlockState(id)
\* reads Executing until the next call that writes the store (a
\* setBlockState of a run or clearAllStates): no other step hides it.
C18_ExecutingReadInBetween ==
    [][\A blockId \in RunIds :
           (/\ StateOf(states, blockId) = Executing
            /\ runs' = runs
            /\ clears' = clears)
           => StateOf(states', blockId) = Executing]_vars

\* The fixed priority order of the formatters a manager is built with.
Priority == <<"JsonFormatter", "ArrayFormatter", "ObjectFormatter", "StringFormatter">>

\* The first position of Priority whose formatter accepts output.
FirstInPriority(output) ==
    LET acc == {i \in 1..Len(Priority) : canFormat(Priority[i], output)}
    IN  CHOOSE i \in acc : \A j \in acc : i <= j

\* TRUE iff formatOutput was last called with an output that is not blank.
FormattedNonBlank == fmtOutput # <<>> /\ Trim(fmtOutput) # <<>>

\* C19: for every output that is not blank, formatOutput delegates the
\* rendering to the first formatter, in the order JSON, array, object,
\* string, whose canFormat accepts the text; the string formatter accepts
\* every text, so a formatter is always selected.
C19_FirstAcceptingInPriorityOrder ==
    FormattedNonBlank =>
        /\ canFormat(Priority[Len(Priority)], fmtOutput)
        /\ fmtCalls # <<>>
        /\ LET p == FirstInPriority(fmtOutput) IN
           /\ formatters[p] = Priority[p]
           /\ fmtFormatted = Format(formatters, p, fmtOutput)

\* C19, witness: an output has been rendered by the array or the object
\* formatter although the string formatter and a formatter registered later
\* accept it too.
C19_Witness ==
    /\ FormattedNonBlank
    /\ fmtCalls # <<>>
    /\ fmtFormatted.by \in {2, 3}
    /\ Len(formatters) > Len(Priority)
    /\ Cardinality(Accepting(fmtOutput, formatters)) >= 3

\* C20: after registerFormatter(f), formatting an output that f accepts
\* calls f.canFormat: every formatOutput call with an output that is not
\* blank consults each registered formatter that accepts the output.
C20_RegisteredFormatterConsulted ==
    [][\A output \in FormatOutputs :
           (FormatOutput(output) /\ Trim(output) # <<>>)
           => \A p \in (Len(Priority) + 1)..Len(formatters) :
                  canFormat(formatters[p], output) => p \in Range(fmtCalls')]_vars

\* C24: a run of one block, whether it succeeds, fails or is aborted,
\* changes only that block's own entry: every step of a run leaves the
\* state entry and the stored result of every other id unchanged.
C24_RunChangesOwnEntryOnly ==
    [][\A r \in 1..MaxRuns :
           runs'[r] # runs[r]
           => \A other \in RunIds \ {runs'[r].id} :
                  /\ getBlockState(states', other) = getBlockState(states, other)
                  /\ getResult(results', other) = getResult(results, other)]_vars

\* C24, witness: a run of one block has ended in Error while another block
\* keeps the Success and the result of its own run.
C24_Witness ==
    \E r \in 1..MaxRuns, other \in RunIds :
        /\ runs[r].pc = "done"
        /\ other # runs[r].id
        /\ StateOf(states, runs[r].id) = Error
        /\ StateOf(states, other) = Success
        /\ getResult(results, other) # NoResult


\* The ids referenced in the output of the last result stored in the entry
\* of blockId.
ReferencedBy(st, blockId) ==
    LET last == LastResultOf(st, blockId)
    IN  IF last = NoResult THEN {} ELSE Range(detectReferences(last.output))

\* The ids reachable from the ids of S by following ReferencedBy, S included.
RECURSIVE ReachableFrom(_, _)
ReachableFrom(S, st) ==
    LET more == S \cup UNION {ReferencedBy(st, blockId) : blockId \in S}
    IN  IF more = S THEN S ELSE ReachableFrom(more, st)

\* C25: hasCircularReferences(selfId, text) returns (it terminates, also on
\* reference cycles that do not pass through selfId) and returns true
\* exactly when selfId is reachable from the ids referenced in text along
\* the references in the stored last-result outputs.
C25_TrueIffSelfReachable ==
    [][\A blockId \in CircIds, text \in CircContents :
           HasCircularReferences(blockId, text)
           => circResult' =
                  (blockId \in ReachableFrom(Range(detectReferences(text)), states))]_vars

\* C25, witness: the check has returned false for a content that refers to
\* a block on a cycle that does not pass through the checked block.
C25_Witness ==
    /\ circSelf = IdProto
    /\ circText = <<Marker, "a">>
    /\ circResult = FALSE
    /\ IdB \in ReferencedBy(states, IdA)
    /\ IdA \in ReferencedBy(states, IdB)

\* C28: once every save started by setBlockState or clearAllStates has
\* completed and none failed, the state file holds the document of the
\* current in-memory maps, whatever order the pending writes completed in.
C28_SettledFileEqualsMemory ==
    (pending = <<>> /\ (nextRun > 1 \/ clears > 0))
    => file = DocFile(SaveData(states, results))


\* C29: in every state reached by runs of blocks and clearBlockStates
\* commands, in any interleaving, an id whose lifecycle state is Success
\* has a stored result, and that result has no error text.
C29_SuccessHasCleanResult ==
    \A blockId \in DOMAIN states :
        StateOf(states, blockId) = Success
        => /\ getResult(results, blockId) # NoResult
           /\ getResult(results, blockId).error = NoError

\* C29, witness: an id is in Success after runs of it that overlapped, one
\* of which ended with an error text, and after a clearBlockStates command.
C29_Witness ==
    \E r, q \in 1..MaxRuns :
        /\ r # q
        /\ runs[r].id = runs[q].id
        /\ r \in runs[q].overlapped
        /\ runs[r].wrote # NoResult
        /\ runs[r].wrote.state = Error
        /\ runs[r].wrote.result # NoResult
        /\ clears > 0
        /\ StateOf(states, runs[q].id) = Success


\* C30: whenever the lifecycle state of an id is Error, processContent
\* substitutes the null literal for every reference to that id; the output
\* of an earlier successful run is never substituted while the id is in
\* state Error.
C30_ErrorSubstitutesNull ==
    \A blockId \in RunIds :
        StateOf(states, blockId) = Error
        => processContent(<<"(">> \o RefTo(blockId) \o <<")">>, results)
               = <<"(", "null", ")">>


\* The offsets at which the inner texts of the recognized fences of a
\* document start and end: after the line end of the opening fence line, and
\* before the closing fence.
RECURSIVE InnerSpans(_, _)
InnerSpans(segs, offset) ==
    IF segs = <<>> THEN <<>>
    ELSE LET seg == Head(segs)
             whole == Len(SegmentText(seg))
             start == offset + whole - Len(seg.body) - 2
         IN  (IF seg.kind \in Languages
              THEN <<[start |-> start, end |-> start + Len(seg.body)]>>
              ELSE <<>>)
             \o InnerSpans(Tail(segs), offset + whole)

\* C27: for every block, whatever its inner text, the recorded contentRange
\* covers exactly the inner text (from the first character after the opening
\* fence line to just before the closing fence), and startLine is the line
\* of that start.
C27_ContentRangeCoversInnerText ==
    LET text == DocumentText(docSegments)
        spans == InnerSpans(docSegments, 0)
    IN  /\ Len(docBlocks) = Len(spans)
        /\ \A k \in 1..Len(spans) :
               /\ docBlocks[k].contentRange.start = PositionAt(text, spans[k].start)
               /\ docBlocks[k].contentRange.end = PositionAt(text, spans[k].end)
               /\ docBlocks[k].startLine = PositionAt(text, spans[k].start).line


\* The tokens a rendering adds around the keys and values it shows.
RenderingToks == {"[", "]", "{", "}", ",", ":", " ", "\n", Quote, "..."}

\* The keys and the scalar values of a value that are at most one level
\* below its root.
TopToks(value) ==
    LET Scalar(v) == IF v.type \in {"string", "number", "boolean"}
                     THEN Range(v.text) ELSE {}
    IN  IF value.type = "array"
        THEN UNION {Scalar(value.items[k]) : k \in 1..Len(value.items)}
        ELSE IF value.type = "object"
        THEN UNION {Range(value.members[k].key) \cup Scalar(value.members[k].value) :
                    k \in 1..Len(value.members)}
        ELSE Scalar(value)

\* C26: whatever canFormat and format calls a formatter instance has served
\* before, the text its format returns shows the keys and values of the
\* output of the result given to that call (for the JSON formatter, those
\* of the top two levels at least), and no key or value of another output.
C26_FormatRendersOutputOfItsCall ==
    lastCall.op = "format" =>
        /\ (Range(lastCall.returned) \cap UNION {Range(o) : o \in RenderOutputs})
              \subseteq (Range(lastCall.output) \cup RenderingToks)
        /\ (lastCall.formatter = "JsonFormatter" /\ JsonParses(Trim(lastCall.output)))
              => TopToks(JsonParse(Trim(lastCall.output)).value)
                    \subseteq Range(lastCall.returned)


\* The keys and the scalar values of a value, itself depth levels below the
\* root, that are more than limit levels below the root.  A key is counted
\* at the level of the object that holds it.
RECURSIVE TokensBelow(_, _, _)
TokensBelow(value, depth, limit) ==
    IF value.type \in {"string", "number", "boolean"}
    THEN IF depth > limit THEN Range(value.text) ELSE {}
    ELSE IF value.type = "array"
    THEN UNION {TokensBelow(value.items[k], depth + 1, limit) :
                k \in 1..Len(value.items)}
    ELSE IF value.type = "object"
    THEN UNION {(IF depth > limit THEN Range(value.members[k].key) ELSE {})
                \cup TokensBelow(value.members[k].value, depth + 1, limit) :
                k \in 1..Len(value.members)}
    ELSE {}

\* The number of levels of a value below its root.
RECURSIVE Height(_)
Height(value) ==
    LET parts == IF value.type = "array" THEN value.items
                 ELSE IF value.type = "object"
                 THEN [k \in 1..Len(value.members) |-> value.members[k].value]
                 ELSE <<>>
        heights == {Height(parts[k]) : k \in 1..Len(parts)}
    IN  IF parts = <<>> THEN 0
        ELSE 1 + CHOOSE h \in heights : \A other \in heights : other <= h

\* The last call is a format of the JSON formatter, given a maxDepth, for an
\* output that is JSON, on an instance that has kept no other text.
RendersWithMaxDepth ==
    /\ lastCall.op = "format"
    /\ lastCall.formatter = "JsonFormatter"
    /\ "maxDepth" \in DOMAIN lastCall.options
    /\ lastCall.raw \in {<<>>, Trim(lastCall.output)}
    /\ JsonParses(Trim(lastCall.output))

\* C21: for every JSON value and every maxDepth >= 0 in the options, the
\* rendered text shows no key or value nested more than maxDepth levels below
\* the root, and a value that has such levels is rendered with the ellipsis
\* marker in their place.
C21_NothingBelowMaxDepth ==
    RendersWithMaxDepth =>
        LET value == JsonParse(Trim(lastCall.output)).value
            limit == lastCall.options.maxDepth
        IN  /\ Range(lastCall.returned) \cap TokensBelow(value, 0, limit) = {}
            /\ Height(value) > limit => "..." \in Range(lastCall.returned)


\* The names of the members of OutputType.
OutputTypes ==
    {"JSON", "Array", "Object", "PHPArray", "PHPObject", "String", "Number",
     "Boolean", "Null", "Undefined"}

C23_DecodingFailureShowsRawText ==
    ( /\ lastCall.op = "format"
      /\ lastCall.formatter = "ArrayFormatter"
      /\ lastCall.raw \in {<<>>, Trim(lastCall.output)}
      /\ canFormat("ArrayFormatter", lastCall.output)
      /\ ~MatchesArrayRegex(Trim(lastCall.output)) )
    => lastCall.returned \in {lastCall.output, Trim(lastCall.output)}


====
